---- MODULE Spec2Model ----
(***************************************************************************)
(* Nelson-GPT retrieval-augmented pipeline: processNelsonQuery (blocking)  *)
(* and streamNelsonQuery (streaming) of services/ragService.ts, with the   *)
(* safety gate, the response generator and the persistence store they      *)
(* call.  Two invocations of the pipeline run concurrently against the     *)
(* same deterministic backends; each awaited call is one step.             *)
(*                                                                         *)
(* Text is a sequence of atoms.  A query is a sequence of characters; a    *)
(* generated text is a sequence of blocks whose character widths are given *)
(* by AtomLen; a fixed message of the source is one atom.                  *)
(***************************************************************************)
EXTENDS Integers, Sequences, FiniteSets, TLC

\* ------------------------------------------------------------------ bounds
\* largest number of data frames of one response stream that the transport
\* cuts in two across consecutive reader.read() results
MaxCuts == 1

\* the two invocations of the pipeline that are compared
Inv == {"A", "B"}

\* ------------------------------------------------------------- text basics
UPPER == <<"A","B","C","D","E","F","G","H","I","J","K","L","M",
           "N","O","P","Q","R","S","T","U","V","W","X","Y","Z">>
LOWER == <<"a","b","c","d","e","f","g","h","i","j","k","l","m",
           "n","o","p","q","r","s","t","u","v","w","x","y","z">>

\* String.prototype.toLowerCase, character by character
LowerChar(c) ==
  IF \E i \in 1..Len(UPPER) : UPPER[i] = c
  THEN LOWER[CHOOSE i \in 1..Len(UPPER) : UPPER[i] = c]
  ELSE c

ToLowerCase(s) == [i \in 1..Len(s) |-> LowerChar(s[i])]

\* String.prototype.includes: k occurs in s as a contiguous run
Includes(s, k) ==
  \E i \in 0..(Len(s) - Len(k)) : SubSeq(s, i + 1, i + Len(k)) = k

\* character width of one atom of generated text
AtomLen(a) ==
  CASE a = "Nelson Textbook" -> 15
    [] a = "nelson textbook" -> 15
    [] a = "x200" -> 200
    [] a = "x199" -> 199
    [] OTHER -> 1

RECURSIVE StrLen(_)
StrLen(s) == IF s = <<>> THEN 0 ELSE AtomLen(Head(s)) + StrLen(Tail(s))

RECURSIVE Concat(_)
\* concatenation of a sequence of texts
Concat(ss) == IF ss = <<>> THEN <<>> ELSE Head(ss) \o Concat(Tail(ss))

RECURSIVE NumToString(_)
\* Number.prototype.toString for a non-negative integer: its decimal digits
NumToString(n) ==
  LET d == <<"0","1","2","3","4","5","6","7","8","9">>[(n % 10) + 1]
  IN IF n < 10 THEN <<d>> ELSE NumToString(n \div 10) \o <<d>>

DigitVal(c) == CHOOSE v \in 0..9 : <<"0","1","2","3","4","5","6","7","8","9">>[v + 1] = c

RECURSIVE ParseInt(_)
\* parseInt of a non-empty digit string
ParseInt(s) ==
  IF Len(s) = 1 THEN DigitVal(s[1])
  ELSE 10 * ParseInt(SubSeq(s, 1, Len(s) - 1)) + DigitVal(s[Len(s)])

\* ------------------------------------------------------------ safety gate
emergencyKeywords ==
  << <<"e","m","e","r","g","e","n","c","y">>,
     <<"u","r","g","e","n","t">>,
     <<"d","y","i","n","g">>,
     <<"c","r","i","s","i","s">>,
     <<"h","e","l","p"," ","m","e">>,
     <<"o","v","e","r","d","o","s","e">> >>

personalKeywords ==
  << <<"m","y"," ","c","h","i","l","d">>,
     <<"m","y"," ","b","a","b","y">>,
     <<"s","h","o","u","l","d"," ","i">>,
     <<"w","h","a","t"," ","s","h","o","u","l","d"," ","i"," ","d","o">> >>

EmergencyReason ==
  "This appears to be an emergency situation. Please contact emergency services immediately (911) or seek immediate medical attention."
PersonalReason ==
  "This system is designed for healthcare professional education only and cannot provide personal medical advice. Please consult with a qualified healthcare provider for personal medical concerns."

MatchesEmergency(q) ==
  \E i \in 1..Len(emergencyKeywords) : Includes(ToLowerCase(q), emergencyKeywords[i])
MatchesPersonal(q) ==
  \E i \in 1..Len(personalKeywords) : Includes(ToLowerCase(q), personalKeywords[i])

validateMedicalQuery_noLower(q) ==
  IF \E i \in 1..Len(emergencyKeywords) : Includes(q, emergencyKeywords[i])
  THEN [isValid |-> FALSE, reason |-> EmergencyReason]
  ELSE IF \E i \in 1..Len(personalKeywords) : Includes(q, personalKeywords[i])
  THEN [isValid |-> FALSE, reason |-> PersonalReason]
  ELSE [isValid |-> TRUE, reason |-> ""]

validateMedicalQuery(q) ==
  IF MatchesEmergency(q)
  THEN [isValid |-> FALSE, reason |-> EmergencyReason]
  ELSE IF MatchesPersonal(q)
  THEN [isValid |-> FALSE, reason |-> PersonalReason]
  ELSE [isValid |-> TRUE, reason |-> ""]

\* ------------------------------------------------- fixed answer templates
DbFailedMessage == "Database connection failed. Please check your Supabase configuration."
EmbeddingFailedMessage == "Failed to generate text embedding"
SearchFailedMessage == "Failed to search medical literature"
GenerateFailedMessage == "Failed to generate medical response"
StreamFailedMessage == "Failed to stream medical response"
SaveFailedMessage == "Failed to save chat message"

ErrorPrefix == "I encountered an error while processing your query: "
ErrorSuffix == "\n\nPlease try:\n- Rephrasing your question with different medical terminology\n- Breaking down complex questions into simpler parts\n- Checking your internet connection\n\nIf the problem persists, please contact technical support."

\* the template of the catch blocks: prefix, the error's message, suffix
ErrorContent(msg) == <<ErrorPrefix, msg, ErrorSuffix>>

NoResultsPrefix == "I apologize, but I couldn't find relevant information in the Nelson Textbook of Pediatrics for your query: \""
NoResultsRest == "\n\nThis could be because:\n- The topic may not be covered in the available Nelson Textbook content\n- The query might need to be rephrased using more specific medical terminology\n- The similarity threshold may be too restrictive\n\nPlease try rephrasing your question with more specific pediatric medical terms, or ask about a different aspect of the topic."

\* the blocking template ends its first line with a blank, the streaming one does not
NoResultsContent(m, q) ==
  <<NoResultsPrefix>> \o q \o
  (IF m = "blocking" THEN <<"\".", " ">> ELSE <<"\".">>) \o <<NoResultsRest>>

TextSearchNote == "\n\n*Note: This response is based on text search due to limited vector similarity.*"

MarkerConnecting == "Connecting to Nelson Textbook database..."
MarkerAnalyzing_repeated == "Searching Nelson Textbook of Pediatrics..."

MarkerAnalyzing == "Analyzing your medical query..."
MarkerSearching == "Searching Nelson Textbook of Pediatrics..."
MarkerGenerating(n) == <<"Found ">> \o NumToString(n) \o <<" relevant medical references. Generating evidence-based response...">>

\* ---------------------------------------------------------------- documents
\* rows of nelson_textbook_chunks; a null section_title is "", a null page_number is 0
\* (both are falsy in the source's || tests)
Row1 == [id |-> "c1", chapter_title |-> "Fever", section_title |-> "Management", page_number |-> 12]
Row2 == [id |-> "c2", chapter_title |-> "Fever", section_title |-> "", page_number |-> 0]
Row3 == [id |-> "c3", chapter_title |-> "Sepsis", section_title |-> "Diagnosis", page_number |-> 7]
Row4 == [id |-> "c4", chapter_title |-> "Asthma", section_title |-> "", page_number |-> 130]

convertChunkToDocument(chunk) ==
  [id |-> chunk.id,
   chapter |-> chunk.chapter_title,
   section |-> IF chunk.section_title # "" THEN chunk.section_title ELSE "General",
   page_number |-> chunk.page_number,
   edition |-> "22nd Edition"]

MapDocs(rows) == [i \in 1..Len(rows) |-> convertChunkToDocument(rows[i])]

\* page is the empty text when the document has no page number
CitationOf(doc) ==
  [chapter |-> doc.chapter,
   section |-> doc.section,
   page |-> IF doc.page_number # 0 THEN NumToString(doc.page_number) ELSE <<>>,
   edition |-> doc.edition]

Citations(docs) == [i \in 1..Len(docs) |-> CitationOf(docs[i])]

DbCitations(citations, docs) ==
  [i \in 1..Len(citations) |->
     [document_id |-> IF i <= Len(docs) THEN docs[i].id ELSE "doc_",
      chapter |-> citations[i].chapter,
      section |-> citations[i].section,
      page_number |-> IF citations[i].page # <<>> THEN ParseInt(citations[i].page) ELSE 0,
      edition |-> citations[i].edition]]

\* ------------------------------------------------------ response generator
CorpusName == <<"Nelson Textbook">>

determineConfidence_from200(docs, content) ==
  IF Len(docs) >= 3 /\ Includes(content, CorpusName) THEN "high"
  ELSE IF Len(docs) >= 1 /\ StrLen(content) >= 200 THEN "medium"
  ELSE "low"

determineConfidence(docs, content) ==
  IF Len(docs) >= 3 /\ Includes(content, CorpusName) THEN "high"
  ELSE IF Len(docs) >= 1 /\ StrLen(content) > 200 THEN "medium"
  ELSE "low"

\* what the generation backend does with a request: "transport" the fetch rejects,
\* "http" a non-success status, "ok" a completion with the given text
GenText1 == <<"x200", "y">>
GenText2 == <<"Nelson Textbook", "z">>
GenOutcomes ==
  { [status |-> "transport", text |-> <<>>],
    [status |-> "http", text |-> <<>>],
    [status |-> "ok", text |-> <<>>],
    [status |-> "ok", text |-> GenText1],
    [status |-> "ok", text |-> GenText2] }

\* generateMedicalResponse: ok with the answer, or the error it throws
generateMedicalResponse(docs, gen) ==
  IF gen.status # "ok" \/ gen.text = <<>>
  THEN [ok |-> FALSE, error |-> GenerateFailedMessage]
  ELSE [ok |-> TRUE,
        content |-> gen.text,
        confidence |-> determineConfidence(docs, gen.text),
        citations |-> Citations(docs)]

\* the event stream of a completion: one data frame per text block, then the sentinel
StreamFrames(text) ==
  [i \in 1..Len(text) |-> [kind |-> "delta", content |-> <<text[i]>>]] \o <<[kind |-> "done", content |-> <<>>]>>

RECURSIVE ProcessLines(_)
\* the for loop over the data lines of one decoded chunk: the contents it yields
ProcessLines(frames) ==
  IF frames = <<>> THEN <<>>
  ELSE IF Head(frames).kind = "done" THEN <<>>
  ELSE IF Head(frames).kind = "delta" /\ Head(frames).content # <<>>
       THEN <<Head(frames).content>> \o ProcessLines(Tail(frames))
       ELSE ProcessLines(Tail(frames))

\* ------------------------------------------------------------------ inputs
QuerySafe == <<"f","e","v","e","r">>
QueryEmergency == <<"U","R","G","E","N","T">>
QueryPersonal == <<"M","y"," ","b","a","b","y">>
QueryBoth == <<"c","r","i","s","i","s",":"," ","m","y"," ","c","h","i","l","d">>
Queries == {QuerySafe, QueryEmergency, QueryPersonal, QueryBoth}

\* "" is an absent session id
SessionIds == {"", "s1"}

Unset == [set |-> FALSE]
DbOutcomes == {[set |-> TRUE, result |-> r] : r \in {"ok", "testError", "countError", "throws"}}
EmbedOutcomes == {[set |-> TRUE, ok |-> b] : b \in BOOLEAN}
VectorOutcomes ==
  {[set |-> TRUE, ok |-> FALSE, rows |-> <<>>]} \cup
  {[set |-> TRUE, ok |-> TRUE, rows |-> r] : r \in {<<>>, <<Row1>>, <<Row1, Row2, Row3>>}}
LexicalOutcomes ==
  {[set |-> TRUE, ok |-> FALSE, rows |-> <<>>]} \cup
  {[set |-> TRUE, ok |-> TRUE, rows |-> r] : r \in {<<>>, <<Row2>>, <<Row4, Row3, Row1, Row2>>}}
GenBackendOutcomes == {[set |-> TRUE, status |-> g.status, text |-> g.text] : g \in GenOutcomes}

\* ------------------------------------------------------------------- state
VARIABLES
  query,          \* the query text both invocations are given
  sessionId,      \* the session id both invocations are given ("" if none)
  mode,           \* per invocation: "blocking" (processNelsonQuery) or "streaming" (streamNelsonQuery)
  backend,        \* what each backend answers for this query, fixed at its first call
  pc,             \* per invocation: the pipeline state
  path,           \* per invocation: the pipeline states entered so far
  events,         \* per invocation: backend calls made and strings yielded, in order
  thrown,         \* per invocation: message of the error thrown into the catch block
  local,          \* per invocation: local variables of the function; saveError is the
                  \* console.error line of the catch (saveError) block; ignoredError
                  \* is an error of the count query or of the update, which
                  \* saveChatMessage does not look at; terminal is the value
                  \* streamMedicalResponse returned
  answer,         \* per invocation: the RAGResponse returned
  chat_messages,  \* rows of the chat_messages table
  message_count,  \* message_count column of the chat_sessions row, per session id
  call,           \* the library function applied outside the pipeline, with its arguments
  result,         \* what that application returned
  hook,           \* useChat: the useState cells messages, isLoading, error, currentSession
  rendered,       \* useChat: the values of the cells at the last render, which the
                  \* callbacks of that render close over
  sends,          \* useChat: per sendMessage invocation, its position and its locals
  options         \* useChat: the options enableStreaming and autoSave

vars == <<query, sessionId, mode, backend, pc, path, events, thrown, local, answer,
          chat_messages, message_count, call, result, hook, rendered, sends, options>>

hookVars == <<hook, rendered, sends, options>>

\* bound: sendMessage invocations in one behaviour
MaxSends == 2
SendIds == 1..MaxSends

\* the message the list starts with (id 'welcome')
Welcome ==
  [id |-> <<"welcome", 0>>, role |-> "assistant", content |-> <<"welcome">>, isStreaming |-> FALSE]

\* useState initial values: the welcome message, not loading, no error, no session
InitHook == [messages |-> <<Welcome>>, isLoading |-> FALSE, error |-> "", currentSession |-> ""]

\* a sendMessage invocation that has not been made
NotCalled ==
  [pc |-> "NotCalled", closure |-> InitHook, conversationHistory |-> <<>>,
   fullContent |-> <<>>, created |-> FALSE, before |-> <<>>, stale |-> FALSE]

\* defaults of the destructured options
DefaultOptions == [enableStreaming |-> TRUE, autoSave |-> TRUE]

\* the hook as mounted, before any event
HookMounted ==
  /\ hook = InitHook
  /\ rendered = InitHook
  /\ sends = [i \in SendIds |-> NotCalled]

NoCall == [fn |-> "none"]
Pending == [done |-> FALSE]

NoAnswer == [none |-> TRUE]
NoResponse == [ok |-> FALSE]

InitLocal ==
  [docs |-> <<>>, response |-> NoResponse, fullContent |-> <<>>,
   wire |-> <<>>, tail |-> FALSE, cuts |-> 0, role |-> "user", count |-> 0,
   saveError |-> FALSE, ignoredError |-> FALSE, terminal |-> NoResponse]

Init ==
  /\ query \in Queries
  /\ sessionId \in SessionIds
  /\ mode \in {m \in [Inv -> {"blocking", "streaming"}] : m["A"] = "blocking"}
  /\ backend = [db |-> Unset, embed |-> Unset, vector |-> Unset, lexical |-> Unset, gen |-> Unset]
  /\ pc = [p \in Inv |-> "Validating"]
  /\ path = [p \in Inv |-> <<"Validating">>]
  /\ events = [p \in Inv |-> <<>>]
  /\ thrown = [p \in Inv |-> ""]
  /\ local = [p \in Inv |-> InitLocal]
  /\ answer = [p \in Inv |-> NoAnswer]
  /\ chat_messages = <<>>
  /\ message_count = [s \in SessionIds \ {""} |-> 0]
  /\ call = NoCall
  /\ result = Pending
  /\ HookMounted
  /\ options = DefaultOptions

\* ----------------------------------------------------------------- helpers
Call(name) == [type |-> "call", name |-> name, text |-> <<>>]
Yield(kind, text) == [type |-> "yield", name |-> kind, text |-> text]
\* only the generator function yields
YieldIn(p, kind, text) == IF mode[p] = "streaming" THEN <<Yield(kind, text)>> ELSE <<>>

\* the outcome of a backend: the recorded one, or any if this is its first call
Oracle(field, outcomes) == IF backend[field].set THEN {backend[field]} ELSE outcomes

Goto(p, s) ==
  /\ pc' = [pc EXCEPT ![p] = s]
  /\ path' = [path EXCEPT ![p] = Append(@, s)]

Emit(p, evs) == events' = [events EXCEPT ![p] = @ \o evs]

TryCovers_afterValidation(stage) == stage # "Validating"

\* the try block of both pipeline functions encloses every stage
TryCovers(stage) == TRUE

\* an error thrown at a stage: into the catch block if the try block encloses the stage
Raise(p, stage, msg) ==
  /\ thrown' = [thrown EXCEPT ![p] = msg]
  /\ Goto(p, IF TryCovers(stage) THEN "Errored" ELSE "Rejected")
  /\ UNCHANGED answer

Return(p, ans) ==
  /\ answer' = [answer EXCEPT ![p] = ans]
  /\ Goto(p, "Done")
  /\ UNCHANGED thrown

Answer(content, confidence, citations, docs) ==
  [content |-> content, confidence |-> confidence, citations |-> citations,
   retrievedDocuments |-> docs]

NoResultsAnswer(p) == Answer(NoResultsContent(mode[p], query), "low", <<>>, <<>>)
ErrorAnswer(msg) == Answer(ErrorContent(msg), "low", <<>>, <<>>)

\* ------------------------------------------------------- backend adapters
testDatabaseConnection_catchConnected(o) ==
  [connected |-> o.result # "testError"]

\* testDatabaseConnection: never throws; connected unless the first query fails
testDatabaseConnection(o) ==
  [connected |-> (o.result = "ok" \/ o.result = "countError")]

\* cap of the fallback text search
TextSearchLimit == 3

\* .limit(limit) of searchNelsonChunks
LimitRows(rows, limit) == SubSeq(rows, 1, IF Len(rows) < limit THEN Len(rows) ELSE limit)

\* the value a for await loop hands to its body for the generator's return value:
\* none, the return value of a generator is not iterated
ForAwaitFinal(ret) == NoResponse

\* ---------------------------------------------------------------- pipeline
\* Step 1: validateMedicalQuery
Validate(p) ==
  /\ pc[p] = "Validating"
  /\ LET validation == validateMedicalQuery(query) IN
       IF ~validation.isValid
       THEN Raise(p, "Validating", validation.reason)
       ELSE Goto(p, "ConnectivityCheck") /\ UNCHANGED <<thrown, answer>>
  /\ UNCHANGED <<hookVars, call, result, query, sessionId, mode, backend, events, local, chat_messages, message_count>>

\* Step 2: testDatabaseConnection
ConnectivityCheck(p) ==
  /\ pc[p] = "ConnectivityCheck"
  /\ \E o \in Oracle("db", DbOutcomes) :
       /\ backend' = [backend EXCEPT !.db = o]
       /\ Emit(p, YieldIn(p, "marker", <<MarkerConnecting>>) \o <<Call("testDatabaseConnection")>>)
       /\ IF ~testDatabaseConnection(o).connected
          THEN Raise(p, "ConnectivityCheck", DbFailedMessage)
          ELSE Goto(p, "Embedding") /\ UNCHANGED <<thrown, answer>>
  /\ UNCHANGED <<hookVars, call, result, query, sessionId, mode, local, chat_messages, message_count>>

\* Step 3: generateEmbedding
Embedding(p) ==
  /\ pc[p] = "Embedding"
  /\ \E o \in Oracle("embed", EmbedOutcomes) :
       /\ backend' = [backend EXCEPT !.embed = o]
       /\ Emit(p, YieldIn(p, "marker", <<MarkerAnalyzing>>) \o <<Call("generateEmbedding")>>)
       /\ IF ~o.ok
          THEN Raise(p, "Embedding", EmbeddingFailedMessage)
          ELSE Goto(p, "Retrieving") /\ UNCHANGED <<thrown, answer>>
  /\ UNCHANGED <<hookVars, call, result, query, sessionId, mode, local, chat_messages, message_count>>

\* Step 4: searchSimilarDocuments and the test for an empty result
Retrieving(p) ==
  /\ pc[p] = "Retrieving"
  /\ \E o \in Oracle("vector", VectorOutcomes) :
       LET docs == MapDocs(o.rows)
           pre == YieldIn(p, "marker", <<MarkerSearching>>) \o <<Call("searchSimilarDocuments")>>
       IN
       /\ backend' = [backend EXCEPT !.vector = o]
       /\ IF ~o.ok
          THEN /\ Emit(p, pre)
               /\ Raise(p, "Retrieving", SearchFailedMessage)
               /\ UNCHANGED local
          ELSE IF Len(docs) = 0
          THEN IF mode[p] = "blocking"
               THEN /\ Emit(p, pre)
                    /\ Goto(p, "EmptyFallback")
                    /\ UNCHANGED <<thrown, answer, local>>
               ELSE /\ Emit(p, pre \o <<Yield("message", NoResultsContent(mode[p], query))>>)
                    /\ Return(p, NoResultsAnswer(p))
                    /\ UNCHANGED local
          ELSE /\ Emit(p, pre \o YieldIn(p, "marker", MarkerGenerating(Len(docs))))
               /\ local' = [local EXCEPT ![p].docs = docs]
               /\ Goto(p, "Generating")
               /\ UNCHANGED <<thrown, answer>>
  /\ UNCHANGED <<hookVars, call, result, query, sessionId, mode, chat_messages, message_count>>

HasTextResults_orEmpty(rows) == Len(rows) >= 0

\* textSearchResults.length > 0
HasTextResults(rows) == Len(rows) > 0

FallbackAnswer_asGenerated(fallbackResponse, fallbackDocs) ==
  Answer(fallbackResponse.content, fallbackResponse.confidence,
         fallbackResponse.citations, fallbackDocs)

\* the answer of the text-search fallback: the generated content with the note appended
FallbackAnswer(fallbackResponse, fallbackDocs) ==
  Answer(fallbackResponse.content \o <<TextSearchNote>>, "medium",
         fallbackResponse.citations, fallbackDocs)

HasSession_always(sid) == TRUE

\* if (sessionId): a session id was supplied
HasSession(sid) == sid # ""

\* fallback of the blocking pipeline: searchNelsonChunks(query, 3)
EmptyFallback(p) ==
  /\ pc[p] = "EmptyFallback"
  /\ \E o \in Oracle("lexical", LexicalOutcomes) :
       LET textSearchResults == LimitRows(o.rows, TextSearchLimit) IN
       /\ backend' = [backend EXCEPT !.lexical = o]
       /\ Emit(p, <<Call("searchNelsonChunks")>>)
       /\ IF o.ok /\ HasTextResults(textSearchResults)
          THEN /\ local' = [local EXCEPT ![p].docs = MapDocs(textSearchResults)]
               /\ Goto(p, "FallbackGenerating")
               /\ UNCHANGED <<thrown, answer>>
          ELSE /\ Return(p, NoResultsAnswer(p))
               /\ UNCHANGED local
  /\ UNCHANGED <<hookVars, call, result, query, sessionId, mode, chat_messages, message_count>>

\* generateMedicalResponse on the fallback documents, inside the fallback's own try/catch
FallbackGenerating(p) ==
  /\ pc[p] = "FallbackGenerating"
  /\ \E o \in Oracle("gen", GenBackendOutcomes) :
       LET fallbackResponse == generateMedicalResponse(local[p].docs, o) IN
       /\ backend' = [backend EXCEPT !.gen = o]
       /\ Emit(p, <<Call("generateMedicalResponse")>>)
       /\ IF fallbackResponse.ok
          THEN Return(p, FallbackAnswer(fallbackResponse, local[p].docs))
          ELSE Return(p, NoResultsAnswer(p))
  /\ UNCHANGED <<hookVars, call, result, query, sessionId, mode, local, chat_messages, message_count>>

\* the RAGResponse built from the generated response
FinalAnswer(p, response) ==
  Answer(response.content, response.confidence, response.citations, local[p].docs)

\* Step 4 (blocking): generateMedicalResponse, then Step 5 if a session id was given
Generating(p) ==
  /\ pc[p] = "Generating"
  /\ mode[p] = "blocking"
  /\ \E o \in Oracle("gen", GenBackendOutcomes) :
       LET response == generateMedicalResponse(local[p].docs, o) IN
       /\ backend' = [backend EXCEPT !.gen = o]
       /\ Emit(p, <<Call("generateMedicalResponse")>>)
       /\ IF ~response.ok
          THEN Raise(p, "Generating", response.error) /\ UNCHANGED local
          ELSE /\ local' = [local EXCEPT ![p].response = response, ![p].role = "user"]
               /\ IF HasSession(sessionId)
                  THEN Goto(p, "SaveInsert") /\ UNCHANGED <<thrown, answer>>
                  ELSE Return(p, FinalAnswer(p, response))
  /\ UNCHANGED <<hookVars, call, result, query, sessionId, mode, chat_messages, message_count>>

\* the RAGResponse of the streaming pipeline: finalResponse?.x || default
StreamAnswer(p, finalResponse) ==
  Answer(IF finalResponse.ok /\ finalResponse.content # <<>>
           THEN finalResponse.content ELSE local[p].fullContent,
         IF finalResponse.ok THEN finalResponse.confidence ELSE "medium",
         IF finalResponse.ok THEN finalResponse.citations ELSE <<>>,
         local[p].docs)

\* the return statement that follows Step 5
Finish(p) ==
  Return(p, IF mode[p] = "blocking" THEN FinalAnswer(p, local[p].response)
            ELSE StreamAnswer(p, local[p].response))

\* Step 4 (streaming): streamMedicalResponse sends its request
StreamOpen(p) ==
  /\ pc[p] = "Generating"
  /\ mode[p] = "streaming"
  /\ \E o \in Oracle("gen", GenBackendOutcomes) :
       /\ backend' = [backend EXCEPT !.gen = o]
       /\ Emit(p, <<Call("streamMedicalResponse")>>)
       /\ IF o.status # "ok"
          THEN Raise(p, "Generating", StreamFailedMessage) /\ UNCHANGED local
          ELSE /\ local' = [local EXCEPT ![p].wire = StreamFrames(o.text)]
               /\ Goto(p, "Streaming")
               /\ UNCHANGED <<thrown, answer>>
  /\ UNCHANGED <<hookVars, call, result, query, sessionId, mode, chat_messages, message_count>>

\* one reader.read() that delivers bytes: the tail of a frame cut by the previous
\* read (if any), n whole frames, and the head of the next frame if it is cut.
\* Only whole frames are lines that start with "data: " and parse.
StreamRead(p) ==
  /\ pc[p] = "Streaming"
  /\ \E n \in 0..Len(local[p].wire), cut \in BOOLEAN :
       LET tailPieces == IF local[p].tail THEN 1 ELSE 0
           cutPieces == IF cut THEN 1 ELSE 0
           contents == ProcessLines(SubSeq(local[p].wire, 1, n))
       IN
       /\ cut => (n < Len(local[p].wire) /\ local[p].cuts < MaxCuts)
       /\ tailPieces + n + cutPieces >= 1
       /\ local' = [local EXCEPT
                      ![p].wire = SubSeq(@, n + cutPieces + 1, Len(@)),
                      ![p].tail = cut,
                      ![p].cuts = @ + cutPieces,
                      ![p].fullContent = @ \o Concat(contents)]
       /\ Emit(p, [i \in 1..Len(contents) |-> Yield("text", contents[i])])
       /\ UNCHANGED <<pc, path>>
  /\ UNCHANGED <<hookVars, call, result, query, sessionId, mode, backend, thrown, answer, chat_messages, message_count>>

\* reader.read() reports done: streamMedicalResponse returns, the for await loop
\* ends, then Step 5 and the return
StreamEnd(p) ==
  /\ pc[p] = "Streaming"
  /\ local[p].wire = <<>> /\ ~local[p].tail
  /\ LET ret == [ok |-> TRUE,
                 content |-> local[p].fullContent,
                 confidence |-> determineConfidence(local[p].docs, local[p].fullContent),
                 citations |-> Citations(local[p].docs)]
         finalResponse == ForAwaitFinal(ret)
     IN
     IF HasSession(sessionId) /\ finalResponse.ok
     THEN /\ local' = [local EXCEPT ![p].response = finalResponse, ![p].role = "user",
                                     ![p].terminal = ret]
          /\ Goto(p, "SaveInsert")
          /\ UNCHANGED <<thrown, answer>>
     ELSE /\ Return(p, StreamAnswer(p, finalResponse))
          /\ local' = [local EXCEPT ![p].terminal = ret]
  /\ UNCHANGED <<hookVars, call, result, query, sessionId, mode, backend, events, chat_messages, message_count>>

\* ------------------------------------------------------------- persistence
MessageRow(p) ==
  IF local[p].role = "user"
  THEN [session_id |-> sessionId, role |-> "user", content |-> query,
        citations |-> <<>>, confidence |-> ""]
  ELSE [session_id |-> sessionId, role |-> "assistant", content |-> local[p].response.content,
        citations |-> DbCitations(local[p].response.citations, local[p].docs),
        confidence |-> local[p].response.confidence]

OnSaveError_propagate(p) == Raise(p, "Persisting", SaveFailedMessage)

\* catch (saveError): logged, the request goes on to its return statement
OnSaveError(p) == Finish(p)

\* saveChatMessage: the insert into chat_messages
SaveInsert(p) ==
  /\ pc[p] = "SaveInsert"
  /\ Emit(p, <<[type |-> "call", name |-> "saveChatMessage", text |-> <<local[p].role>>]>>)
  /\ \E ok \in BOOLEAN :
       IF ok
       THEN /\ chat_messages' = Append(chat_messages, MessageRow(p))
            /\ Goto(p, "SaveCount")
            /\ UNCHANGED <<thrown, answer>>
            /\ UNCHANGED local
       ELSE /\ local' = [local EXCEPT ![p].saveError = TRUE]
            /\ OnSaveError(p)
            /\ UNCHANGED chat_messages
  /\ UNCHANGED <<hookVars, call, result, query, sessionId, mode, backend, message_count>>

\* getMessageCount: count of the session's rows, 0 if the query gives none
getMessageCount(ok) ==
  IF ok THEN Cardinality({i \in 1..Len(chat_messages) : chat_messages[i].session_id = sessionId})
  ELSE 0

SaveCount(p) ==
  /\ pc[p] = "SaveCount"
  /\ \E ok \in BOOLEAN :
       local' = [local EXCEPT ![p].count = getMessageCount(ok),
                              ![p].ignoredError = @ \/ ~ok]
  /\ Goto(p, "SaveUpdate")
  /\ UNCHANGED <<hookVars, call, result, query, sessionId, mode, backend, events, thrown, answer, chat_messages, message_count>>

\* the update of chat_sessions (its error is not looked at), then the next
\* statement of the pipeline
SaveUpdate(p) ==
  /\ pc[p] = "SaveUpdate"
  /\ \E ok \in BOOLEAN :
       /\ message_count' = IF ok THEN [message_count EXCEPT ![sessionId] = local[p].count + 1]
                           ELSE message_count
       /\ IF local[p].role = "user"
          THEN /\ local' = [local EXCEPT ![p].role = "assistant",
                                         ![p].ignoredError = @ \/ ~ok]
               /\ Goto(p, "SaveInsert")
               /\ UNCHANGED <<thrown, answer>>
          ELSE /\ local' = [local EXCEPT ![p].ignoredError = @ \/ ~ok]
               /\ Finish(p)
  /\ UNCHANGED <<hookVars, call, result, query, sessionId, mode, backend, events, chat_messages>>

\* ------------------------------------------------------------- catch block
HandleError(p) ==
  /\ pc[p] = "Errored"
  /\ Emit(p, YieldIn(p, "message", ErrorContent(thrown[p])))
  /\ Return(p, ErrorAnswer(thrown[p]))
  /\ UNCHANGED <<hookVars, call, result, query, sessionId, mode, backend, local, chat_messages, message_count>>

Step(p) ==
  \/ Validate(p)
  \/ ConnectivityCheck(p)
  \/ Embedding(p)
  \/ Retrieving(p)
  \/ EmptyFallback(p)
  \/ FallbackGenerating(p)
  \/ Generating(p)
  \/ StreamOpen(p)
  \/ StreamRead(p)
  \/ StreamEnd(p)
  \/ SaveInsert(p)
  \/ SaveCount(p)
  \/ SaveUpdate(p)
  \/ HandleError(p)

Next == \E p \in Inv : Step(p)

Spec == Init /\ [][Next]_vars

\* ---------------------------------------------------- observation helpers
IsCall(e) == e.type = "call"
IsTextYield(e) == e.type = "yield" /\ e.name = "text"
IsSaveCall(e) == e.type = "call" /\ e.name = "saveChatMessage"

\* names of the backend calls an invocation has made
CallNames(p) == {events[p][i].name : i \in {j \in 1..Len(events[p]) : IsCall(events[p][j])}}

Called(p, name) == name \in CallNames(p)

GenerationCalls(p) ==
  {i \in 1..Len(events[p]) :
     IsCall(events[p][i]) /\ events[p][i].name \in {"generateMedicalResponse", "streamMedicalResponse"}}

\* the roles of the saveChatMessage calls of an invocation, in call order
SaveRoles(p) ==
  LET saves == SelectSeq(events[p], IsSaveCall)
  IN [i \in 1..Len(saves) |-> saves[i].text[1]]

\* the texts an invocation has yielded, in order
YieldedTexts(p, Test(_)) ==
  LET ys == SelectSeq(events[p], Test)
  IN [i \in 1..Len(ys) |-> ys[i].text]

GateRejects(q) == MatchesEmergency(q) \/ MatchesPersonal(q)
Advisory(q) == IF MatchesEmergency(q) THEN EmergencyReason ELSE PersonalReason

DbUnreachable == backend.db.set /\ backend.db.result \in {"testError", "throws"}
VectorEmpty == backend.vector.set /\ backend.vector.ok /\ backend.vector.rows = <<>>
LexicalFound == backend.lexical.set /\ backend.lexical.ok /\ backend.lexical.rows # <<>>
LexicalEmpty == backend.lexical.set /\ backend.lexical.ok /\ backend.lexical.rows = <<>>
GenerationFails == backend.gen.set /\ (backend.gen.status # "ok" \/ backend.gen.text = <<>>)
GenerationSucceeds == backend.gen.set /\ backend.gen.status = "ok" /\ backend.gen.text # <<>>

WellFormed(a) ==
  /\ DOMAIN a = {"content", "confidence", "citations", "retrievedDocuments"}
  /\ a.confidence \in {"high", "medium", "low"}
  /\ DOMAIN a.content = 1..Len(a.content)
  /\ DOMAIN a.citations = 1..Len(a.citations)
  /\ DOMAIN a.retrievedDocuments = 1..Len(a.retrievedDocuments)

\* ------------------------------------------------------------------ claims

\* C1: for a query whose lowercased text contains an emergency or a
\* personal-advice keyword, neither pipeline makes any call to the
\* connectivity check, the embedding generator, vector search, lexical search,
\* the generation backend or the persistence store, and nothing is stored.
C1_SafetyGatePrecedence ==
  GateRejects(query) =>
    /\ \A p \in Inv : CallNames(p) = {}
    /\ chat_messages = <<>>

C1_Witness ==
  /\ query = QueryEmergency
  /\ mode["B"] = "streaming"
  /\ \A p \in Inv : pc[p] = "Done"

\* C2: when the safety gate rejects a query the pipeline goes directly to
\* Done, never through Errored, and the answer's content is exactly the fixed
\* advisory of the matched lexicon, with confidence low, no citations and no
\* retrieved documents.
C2_GateRejectionIsDirect ==
  \A p \in Inv :
    (GateRejects(query) /\ pc[p] = "Done") =>
      /\ answer[p] = Answer(<<Advisory(query)>>, "low", <<>>, <<>>)
      /\ \A i \in 1..Len(path[p]) : path[p][i] # "Errored"

\* C3: whatever the backends do, an invocation never rejects (throws to its
\* caller or consumer); until it is done it can take a step and once it is
\* done it has returned a well-formed answer.
C3_AlwaysAnswers ==
  \A p \in Inv :
    /\ pc[p] # "Rejected"
    /\ pc[p] = "Done" => WellFormed(answer[p])
    /\ pc[p] # "Done" => (answer[p] = NoAnswer /\ ENABLED Step(p))

C3_Witness ==
  /\ mode["B"] = "streaming"
  /\ \A p \in Inv : pc[p] = "Done"
  /\ thrown["A"] = SearchFailedMessage
  /\ thrown["B"] = SearchFailedMessage
  /\ backend.db.result = "countError"

\* C4: when vector search returns zero rows and lexical search returns zero
\* rows, the answer is the fixed no-results answer (confidence low, no
\* citations, no retrieved documents) and the generation backend is never called.
C4_EmptyEvidence ==
  \A p \in Inv :
    (VectorEmpty /\ ~LexicalFound /\ Called(p, "searchSimilarDocuments")) =>
      /\ GenerationCalls(p) = {}
      /\ pc[p] = "Done" => answer[p] = NoResultsAnswer(p)

C4_Witness ==
  /\ VectorEmpty /\ LexicalEmpty
  /\ mode["B"] = "streaming"
  /\ \A p \in Inv : pc[p] = "Done" /\ answer[p].confidence = "low"

C6_ConnectivityFirst ==
  \A p \in Inv :
    /\ DbUnreachable =>
         /\ CallNames(p) \subseteq {"testDatabaseConnection"}
         /\ chat_messages = <<>>
         /\ (pc[p] = "Done" /\ ~GateRejects(query)) =>
              /\ answer[p] = ErrorAnswer(DbFailedMessage)
              /\ \E i \in 1..Len(path[p]) : path[p][i] = "Errored"
    /\ \A i \in 1..Len(events[p]) :
         events[p][i] = Call("generateEmbedding") =>
           \E j \in 1..(i - 1) : events[p][j] = Call("testDatabaseConnection")

C6_Witness ==
  /\ backend.db.set /\ backend.db.result = "throws"
  /\ mode["B"] = "streaming"
  /\ \A p \in Inv : pc[p] = "Done" /\ Called(p, "testDatabaseConnection")

\* C7: every failure of the generation backend (transport error, non-success
\* status, empty completion), on every path that calls generation, ends in the
\* Errored answer: the error troubleshooting message with the generation
\* failure, confidence low, no citations.
C7_GenerationFailurePropagates ==
  \A p \in Inv :
    (pc[p] = "Done" /\ GenerationCalls(p) # {} /\ GenerationFails) =>
      /\ answer[p] \in {ErrorAnswer(GenerateFailedMessage), ErrorAnswer(StreamFailedMessage)}
      /\ \E i \in 1..Len(path[p]) : path[p][i] = "Errored"

\* C8: the answer of the blocking pipeline does not depend on what
\* saveChatMessage does: two invocations with the same query and backends
\* return the same answer whichever of their saveChatMessage calls fail, and a
\* failed save neither rejects the invocation nor sends it through Errored.
C8_PersistenceIsolation ==
  \A p \in Inv :
    /\ local[p].saveError =>
         /\ pc[p] = "Done"
         /\ \A i \in 1..Len(path[p]) : path[p][i] \notin {"Errored", "Rejected"}
         /\ answer[p] = FinalAnswer(p, generateMedicalResponse(local[p].docs, backend.gen))
    /\ \A q \in Inv :
         (mode[p] = "blocking" /\ mode[q] = "blocking" /\ pc[p] = "Done" /\ pc[q] = "Done")
           => answer[p] = answer[q]

C8_Witness ==
  /\ \A p \in Inv : mode[p] = "blocking" /\ pc[p] = "Done"
  /\ local["A"].saveError /\ SaveRoles("A") = <<"user">>
  /\ ~local["B"].saveError /\ SaveRoles("B") = <<"user", "assistant">>
  /\ Len(chat_messages) = 2
  /\ answer["A"].confidence = "high"

\* C9: saveChatMessage is called only when a session id was supplied and only
\* after a generation call of the same invocation that succeeded on the main
\* path: never after a validation rejection, a connectivity failure, empty
\* evidence or a generation failure; within one invocation the calls are the
\* user message and then the assistant message, and the assistant message is
\* not saved if saving the user message failed.
C9_PersistenceAfterGeneration ==
  \A p \in Inv :
    /\ SaveRoles(p) \in {<<>>, <<"user">>, <<"user", "assistant">>}
    /\ SaveRoles(p) # <<>> =>
         /\ sessionId # ""
         /\ GenerationSucceeds
         /\ ~GateRejects(query) /\ ~DbUnreachable /\ ~VectorEmpty
         /\ \A i \in 1..Len(events[p]) :
              IsSaveCall(events[p][i]) => \E j \in GenerationCalls(p) : j < i
    /\ SaveRoles(p) = <<"user", "assistant">> =>
         \E i \in 1..Len(chat_messages) :
           chat_messages[i].role = "user" /\ chat_messages[i].content = query
    /\ (local[p].saveError /\ SaveRoles(p) = <<"user">>) =>
         Cardinality({i \in 1..Len(chat_messages) : chat_messages[i].role = "assistant"})
           <= Cardinality({q \in Inv \ {p} : Len(SaveRoles(q)) = 2})
    /\ (sessionId = "" \/ GateRejects(query) \/ DbUnreachable \/ VectorEmpty \/ GenerationFails)
         => chat_messages = <<>>

C9_Witness ==
  /\ \A p \in Inv : pc[p] = "Done"
  /\ SaveRoles("A") = <<"user", "assistant">>
  /\ local["B"].saveError /\ SaveRoles("B") = <<"user">>
  /\ Len(chat_messages) = 2
  /\ chat_messages[2].role = "assistant"

\* C10: for the same query, backends and retrieved documents, the
\* concatenation of the generation text increments yielded by the streaming
\* pipeline equals the content returned by the blocking pipeline.
C10_StreamingEquivalence ==
  \A p, q \in Inv :
    (/\ mode[p] = "blocking" /\ mode[q] = "streaming"
     /\ pc[p] = "Done" /\ pc[q] = "Done"
     /\ Called(p, "generateMedicalResponse") /\ Called(q, "streamMedicalResponse")
     /\ GenerationSucceeds)
      => Concat(YieldedTexts(q, IsTextYield)) = answer[p].content

\* the RAGResponse the blocking generator builds for documents docs when the
\* backend answers with the text content
BlockingResponse(docs, content) ==
  generateMedicalResponse(docs, [status |-> "ok", text |-> content])

StreamCompleted(p) ==
  /\ mode[p] = "streaming"
  /\ pc[p] = "Done"
  /\ local[p].terminal.ok
  /\ local[p].fullContent # <<>>

\* C11: when a stream completes, the value streamMedicalResponse returns and
\* the answer streamNelsonQuery returns both carry the confidence and the
\* citations the blocking generator computes for the same retrieved documents
\* and the same accumulated text.
C11_StreamingTerminalAnswer ==
  \A p \in Inv :
    StreamCompleted(p) =>
      LET blocking == BlockingResponse(local[p].docs, local[p].fullContent) IN
      /\ local[p].terminal.confidence = blocking.confidence
      /\ local[p].terminal.citations = blocking.citations
      /\ answer[p].confidence = blocking.confidence
      /\ answer[p].citations = blocking.citations

\* the part of C11 that the code keeps: the value streamMedicalResponse returns
C11_TerminalValue ==
  \A p \in Inv :
    StreamCompleted(p) =>
      LET blocking == BlockingResponse(local[p].docs, local[p].fullContent) IN
      /\ local[p].terminal.confidence = blocking.confidence
      /\ local[p].terminal.citations = blocking.citations

IsMarker(e) == e.type = "yield" /\ e.name = "marker"

\* the stages of streamNelsonQuery that call a backend, and the marker of each
StageCalls ==
  <<"testDatabaseConnection", "generateEmbedding", "searchSimilarDocuments",
    "streamMedicalResponse">>
StageMarkers(n) ==
  << <<MarkerConnecting>>, <<MarkerAnalyzing>>, <<MarkerSearching>>, MarkerGenerating(n) >>

\* C12: the streaming pipeline yields its progress markers in the order
\* connecting, analyzing, searching, generating, each at most once and each
\* before the backend call of its stage; no generation text is yielded before
\* the generating marker; a finished run has yielded exactly the markers of
\* the stages it reached.
C12_MarkerOrder ==
  \A p \in Inv :
    LET ms == YieldedTexts(p, IsMarker)
        expected == StageMarkers(Len(local[p].docs))
        ev == events[p]
    IN
    /\ mode[p] = "blocking" => ms = <<>>
    /\ Len(ms) <= 4 /\ ms = SubSeq(expected, 1, Len(ms))
    /\ \A i, j \in 1..Len(ms) : i # j => ms[i] # ms[j]
    /\ mode[p] = "streaming" =>
         /\ \A k \in 1..4 : \A i \in 1..Len(ev) :
              ev[i] = Call(StageCalls[k]) =>
                \E j \in 1..(i - 1) : ev[j] = Yield("marker", expected[k])
         /\ \A i \in 1..Len(ev) :
              IsTextYield(ev[i]) =>
                \E j \in 1..(i - 1) : ev[j] = Yield("marker", expected[4])
         /\ pc[p] = "Done" =>
              Len(ms) = Cardinality({k \in 1..4 : Called(p, StageCalls[k])})

C12_Witness ==
  /\ mode["B"] = "streaming"
  /\ pc["B"] = "Done"
  /\ Len(YieldedTexts("B", IsMarker)) = 4
  /\ Len(YieldedTexts("B", IsTextYield)) = 2
  /\ Len(local["B"].docs) = 3

\* a run that stops at the search stage has yielded three markers
C12_StoppedAtSearch ==
  /\ mode["B"] = "streaming"
  /\ pc["B"] = "Done"
  /\ backend.vector.set /\ ~backend.vector.ok
  /\ Len(YieldedTexts("B", IsMarker)) = 3

\* an invocation whose answer was produced from a successful generation
AnsweredFromGeneration(p) ==
  /\ pc[p] = "Done"
  /\ GenerationCalls(p) # {}
  /\ GenerationSucceeds
  /\ "Errored" \notin {path[p][i] : i \in 1..Len(path[p])}

\* the citation that carries the chapter, section, page and edition of doc
CitationFor(doc) ==
  [chapter |-> doc.chapter, section |-> doc.section,
   page |-> IF doc.page_number = 0 THEN <<>> ELSE NumToString(doc.page_number),
   edition |-> doc.edition]

\* C14: every answer produced from a successful generation has exactly one
\* citation per retrieved document, in the order of the documents, each
\* carrying the chapter, section, page and edition of its document.
C14_CitationsMatchDocuments ==
  \A p \in Inv :
    AnsweredFromGeneration(p) =>
      /\ answer[p].retrievedDocuments # <<>>
      /\ Len(answer[p].citations) = Len(answer[p].retrievedDocuments)
      /\ \A i \in 1..Len(answer[p].citations) :
           answer[p].citations[i] = CitationFor(answer[p].retrievedDocuments[i])

\* the blocking pipeline alone keeps C14, on the main and on the fallback path
C14_BlockingCitations ==
  \A p \in Inv :
    (AnsweredFromGeneration(p) /\ mode[p] = "blocking") =>
      /\ Len(answer[p].citations) = Len(answer[p].retrievedDocuments)
      /\ \A i \in 1..Len(answer[p].citations) :
           answer[p].citations[i] = CitationFor(answer[p].retrievedDocuments[i])

\* ======================================================= library functions
\* The functions below are pure.  Each is applied once, outside the
\* pipeline, to arguments drawn from a bounded set: call holds the function
\* name and the arguments, result what the function returned.

\* most retrieved documents handed to determineConfidence
MaxDocs == 4
\* most blocks of a response text handed to determineConfidence
MaxBlocks == 2

\* all texts of at most n atoms
TextsUpTo(atoms, n) == UNION {[1..k -> atoms] : k \in 0..n}

SampleRows == <<Row1, Row2, Row3, Row4>>
SampleDocs(n) == [i \in 1..n |-> convertChunkToDocument(SampleRows[((i - 1) % 4) + 1])]

ConfidenceAtoms == {"Nelson Textbook", "nelson textbook", "x200", "x199", "y"}
ConfidenceCalls ==
  {[fn |-> "determineConfidence", docs |-> SampleDocs(n), content |-> t] :
     n \in 0..MaxDocs, t \in TextsUpTo(ConfidenceAtoms, MaxBlocks)}

Returned(v) == [done |-> TRUE, value |-> v]

pipelineVars == <<query, sessionId, mode, backend, pc, path, events, thrown, local, answer,
                  chat_messages, message_count>>

ApplyDetermineConfidence ==
  /\ call.fn = "determineConfidence"
  /\ ~result.done
  /\ result' = Returned(determineConfidence(call.docs, call.content))
  /\ UNCHANGED <<call, pipelineVars, hookVars>>

\* ------------------------------------------------- retrieval (SQL functions)
\* Scores are in hundredths: distance is the value of embedding <=> query_embedding
\* (cosine distance) for the query at hand, text_rank the value of ts_rank_cd.
\* A row of nelson_textbook_chunks is
\*   [embedded, distance, chapter_title, matched, text_rank]
\* embedded: embedding IS NOT NULL; matched: content tsvector @@ the text query.

\* number of rows of nelson_textbook_chunks
MaxChunks == 3

\* DEFAULT 0.7 and DEFAULT 5 of the three functions
DefaultMatchThreshold == 70
DefaultMatchCount == 5

ChunkRow(e, d, c, m, r) ==
  [embedded |-> e, distance |-> d, chapter_title |-> c, matched |-> m, text_rank |-> r]

\* tables of MaxChunks rows over a set of rows; the id of a row is its index
Tables(rows) == [1..MaxChunks -> rows]

\* 1 - (embedding <=> query_embedding)
Similarity(row) == 100 - row.distance

InVectorSearch_atLeast(row, match_threshold) ==
  row.embedded /\ Similarity(row) >= match_threshold

\* WHERE embedding IS NOT NULL AND 1 - (embedding <=> query_embedding) > match_threshold
InVectorSearch(row, match_threshold) ==
  row.embedded /\ Similarity(row) > match_threshold

\* the orders of the ids S that a sort on ascending key[id] can produce
OrderBy(S, key) ==
  {o \in [1..Cardinality(S) -> S] :
     /\ \A i, j \in 1..Cardinality(S) : i # j => o[i] # o[j]
     /\ \A i, j \in 1..Cardinality(S) : i < j => key[o[i]] <= key[o[j]]}

\* LIMIT match_count
Limit(rows, match_count) ==
  SubSeq(rows, 1, IF Len(rows) < match_count THEN Len(rows) ELSE match_count)

VectorRow(table, id) ==
  [id |-> id, chapter_title |-> table[id].chapter_title, similarity |-> Similarity(table[id])]

match_nelson_chunks_anyOrder(table, match_threshold, match_count) ==
  LET found == {id \in DOMAIN table : InVectorSearch(table[id], match_threshold)}
  IN {Limit([i \in 1..Len(o) |-> VectorRow(table, o[i])], match_count) :
        o \in OrderBy(found, [id \in found |-> 0])}

\* the results match_nelson_chunks can return (rows at equal distance in any order)
match_nelson_chunks(table, match_threshold, match_count) ==
  LET found == {id \in DOMAIN table : InVectorSearch(table[id], match_threshold)}
  IN {Limit([i \in 1..Len(o) |-> VectorRow(table, o[i])], match_count) :
        o \in OrderBy(found, [id \in found |-> table[id].distance])}

match_nelson_chunks_by_chapter(table, chapter_filter, match_threshold, match_count) ==
  LET found == {id \in DOMAIN table :
                  /\ InVectorSearch(table[id], match_threshold)
                  /\ table[id].chapter_title = chapter_filter}
  IN {Limit([i \in 1..Len(o) |-> VectorRow(table, o[i])], match_count) :
        o \in OrderBy(found, [id \in found |-> table[id].distance])}

\* COALESCE(t.text_rank, 0) of the left join with text_search
TextRank(row) == IF row.matched THEN row.text_rank ELSE 0

CombinedScore_similarityOnly(similarity, text_rank) == 10 * similarity

\* similarity * 0.7 + text_rank * 0.3, in thousandths
CombinedScore(similarity, text_rank) == 7 * similarity + 3 * text_rank

HybridRow(table, id) ==
  [id |-> id, chapter_title |-> table[id].chapter_title,
   similarity |-> Similarity(table[id]), text_rank |-> TextRank(table[id])]

hybrid_search_nelson(table, match_threshold, match_count) ==
  LET vector_search == {id \in DOMAIN table : InVectorSearch(table[id], match_threshold)}
  IN {Limit([i \in 1..Len(o) |-> HybridRow(table, o[i])], match_count) :
        o \in OrderBy(vector_search,
                      [id \in vector_search |->
                         0 - CombinedScore(Similarity(table[id]), TextRank(table[id]))])}

VectorSearchCalls ==
  {[fn |-> "match_nelson_chunks", table |-> t, match_threshold |-> th, match_count |-> n] :
     t \in Tables({ChunkRow(FALSE, 0, "Fever", FALSE, 0)} \cup
                  {ChunkRow(TRUE, d, "Fever", FALSE, 0) : d \in {10, 20, 50}}),
     th \in {DefaultMatchThreshold, 80},
     n \in {1, 2, DefaultMatchCount}}

ChapterSearchCalls ==
  {[fn |-> "match_nelson_chunks_by_chapter", table |-> t, chapter_filter |-> "Fever",
    match_threshold |-> th, match_count |-> n] :
     t \in Tables({ChunkRow(FALSE, 0, c, FALSE, 0) : c \in {"Fever", "Sepsis"}} \cup
                  {ChunkRow(TRUE, d, c, FALSE, 0) : d \in {10, 20}, c \in {"Fever", "Sepsis"}}),
     th \in {DefaultMatchThreshold, 80},
     n \in {1, DefaultMatchCount}}

HybridSearchCalls ==
  {[fn |-> "hybrid_search_nelson", table |-> t, match_threshold |-> th, match_count |-> n] :
     t \in Tables({ChunkRow(FALSE, 0, "Fever", TRUE, 50)} \cup
                  {ChunkRow(TRUE, d, "Fever", FALSE, 0) : d \in {10, 20, 30}} \cup
                  {ChunkRow(TRUE, d, "Fever", TRUE, 50) : d \in {10, 20, 30}}),
     th \in {DefaultMatchThreshold},
     n \in {1, 2, DefaultMatchCount}}

ApplyMatchNelsonChunks ==
  /\ call.fn = "match_nelson_chunks"
  /\ ~result.done
  /\ \E r \in match_nelson_chunks(call.table, call.match_threshold, call.match_count) :
       result' = Returned(r)
  /\ UNCHANGED <<call, pipelineVars, hookVars>>

ApplyMatchNelsonChunksByChapter ==
  /\ call.fn = "match_nelson_chunks_by_chapter"
  /\ ~result.done
  /\ \E r \in match_nelson_chunks_by_chapter(call.table, call.chapter_filter,
                                             call.match_threshold, call.match_count) :
       result' = Returned(r)
  /\ UNCHANGED <<call, pipelineVars, hookVars>>

ApplyHybridSearchNelson ==
  /\ call.fn = "hybrid_search_nelson"
  /\ ~result.done
  /\ \E r \in hybrid_search_nelson(call.table, call.match_threshold, call.match_count) :
       result' = Returned(r)
  /\ UNCHANGED <<call, pipelineVars, hookVars>>

\* ------------------------------------------------ text normalisation
\* (embedding service) a text is a sequence of characters

\* longest text handed to preprocessMedicalText
MaxTextLen == 4

DIGITS == <<"0","1","2","3","4","5","6","7","8","9">>

\* \s, \d, [A-Z] and \w of the regular expressions
IsSpace(c) == c \in {" ", "\t", "\n", "\r"}
IsDigit(c) == \E i \in 1..Len(DIGITS) : DIGITS[i] = c
IsUpper(c) == \E i \in 1..Len(UPPER) : UPPER[i] = c
IsWordChar(c) == IsDigit(c) \/ IsUpper(c) \/ c = "_" \/ \E i \in 1..Len(LOWER) : LOWER[i] = c

\* the characters of s at the positions i with keep[i], in order
KeepAt(s, keep) ==
  LET F[i \in 0..Len(s)] ==
        IF i = 0 THEN <<>>
        ELSE IF keep[i] THEN Append(F[i - 1], s[i]) ELSE F[i - 1]
  IN F[Len(s)]

\* .replace(/\s+/g, ' ')
CollapseWhitespace(s) ==
  LET t == [i \in 1..Len(s) |-> IF IsSpace(s[i]) THEN " " ELSE s[i]]
  IN KeepAt(t, [i \in 1..Len(s) |-> ~(IsSpace(s[i]) /\ i > 1 /\ IsSpace(s[i - 1]))])

\* .replace(/[\.]{2,}/g, '.')
CollapseDots(s) ==
  KeepAt(s, [i \in 1..Len(s) |-> ~(s[i] = "." /\ i > 1 /\ s[i - 1] = ".")])

\* mg|kg|ml|cm|mm|mcg|IU|mEq
Units ==
  {<<"m","g">>, <<"k","g">>, <<"m","l">>, <<"c","m">>, <<"m","m">>, <<"m","c","g">>, <<"I","U">>, <<"m","E","q">>}

StartsWith(s, i, k) == i + Len(k) - 1 <= Len(s) /\ SubSeq(s, i, i + Len(k) - 1) = k

\* .replace(/(\d+)\s*(mg|kg|ml|cm|mm|mcg|IU|mEq)/g, '$1$2'): the white space
\* between a digit and a unit is removed; the match is case-sensitive
TightenUnits(s) ==
  KeepAt(s, [i \in 1..Len(s) |->
    ~(/\ IsSpace(s[i])
      /\ \E a \in 2..i, b \in i..Len(s) :
           /\ \A j \in a..b : IsSpace(s[j])
           /\ IsDigit(s[a - 1])
           /\ \E u \in Units : StartsWith(s, b + 1, u))])

medicalAbbreviations ==
  {<<"I","V">>, <<"I","M">>, <<"P","O">>, <<"P","R">>, <<"S","Q">>, <<"I","C","U">>,
   <<"N","I","C","U">>, <<"P","I","C","U">>, <<"E","R">>, <<"E","D">>, <<"C","B","C">>,
   <<"C","R","P">>, <<"E","S","R">>, <<"L","F","T">>, <<"B","U","N">>, <<"E","C","G">>,
   <<"E","E","G">>, <<"M","R","I">>, <<"C","T">>, <<"H","I","V">>, <<"A","I","D","S">>,
   <<"R","S","V">>, <<"U","T","I">>, <<"U","R","I">>, <<"A","D","H","D">>,
   <<"G","E","R","D">>, <<"C","H","D">>, <<"C","P","R">>, <<"B","L","S">>,
   <<"P","A","L","S">>, <<"N","R","P">>, <<"A","A","P">>, <<"C","D","C">>,
   <<"W","H","O">>, <<"F","D","A">>}

\* .replace(/\b([A-Z]{2,})\b/g, ...): a run of two or more capitals with a word
\* boundary on both sides is put in lower case unless it is a listed abbreviation
LowercaseAcronyms(s) ==
  [i \in 1..Len(s) |->
     IF /\ IsUpper(s[i])
        /\ \E a \in 1..i, b \in i..Len(s) :
             /\ \A j \in a..b : IsUpper(s[j])
             /\ b - a + 1 >= 2
             /\ a = 1 \/ ~IsWordChar(s[a - 1])
             /\ b = Len(s) \/ ~IsWordChar(s[b + 1])
             /\ SubSeq(s, a, b) \notin medicalAbbreviations
     THEN LowerChar(s[i])
     ELSE s[i]]

\* .trim()
Trim(s) ==
  IF \A i \in 1..Len(s) : IsSpace(s[i]) THEN <<>>
  ELSE LET a == CHOOSE i \in 1..Len(s) : ~IsSpace(s[i]) /\ \A j \in 1..(i - 1) : IsSpace(s[j])
           b == CHOOSE i \in 1..Len(s) : ~IsSpace(s[i]) /\ \A j \in (i + 1)..Len(s) : IsSpace(s[j])
       IN SubSeq(s, a, b)

preprocessMedicalText(text) ==
  Trim(LowercaseAcronyms(TightenUnits(CollapseDots(CollapseWhitespace(text)))))

NormaliseAlphabet == {" ", ".", "5", "m", "g", "M", "G", "I"}
NormaliseCalls ==
  {[fn |-> "preprocessMedicalText", text |-> t] : t \in TextsUpTo(NormaliseAlphabet, MaxTextLen)}

ApplyPreprocessMedicalText ==
  /\ call.fn = "preprocessMedicalText"
  /\ ~result.done
  /\ result' = Returned(preprocessMedicalText(call.text))
  /\ UNCHANGED <<call, pipelineVars, hookVars>>

\* ------------------------------------------------------ fallback embedding
\* new Array(384), the 10 positions a word adds to, and the common
\* denominator of the weights 1/1 .. 1/10 (a component is a number of 2520ths)
EmbeddingDim == 384
PatternLen == 10
WeightScale == 2520

\* longest text of the sample alphabet handed to generateFallbackEmbedding
MaxEmbedTextLen == 4

\* String.prototype.charCodeAt for the characters of the sample texts
CharCode(c) ==
  IF \E i \in 1..Len(LOWER) : LOWER[i] = c
    THEN 96 + CHOOSE i \in 1..Len(LOWER) : LOWER[i] = c
  ELSE IF IsUpper(c) THEN 64 + CHOOSE i \in 1..Len(UPPER) : UPPER[i] = c
  ELSE IF IsDigit(c) THEN 48 + DigitVal(c)
  ELSE CASE c = " " -> 32 [] c = "." -> 46 [] c = ":" -> 58

\* a 32-bit integer as its two 16-bit halves
Half == 65536
Word32(hi, lo) == [hi |-> hi % Half, lo |-> lo % Half]

\* hash = ((hash << 5) - hash) + char; hash = hash & hash: 31 * hash + char
\* reduced to 32 bits
HashStep(h, char) ==
  LET lo == 31 * h.lo + char
  IN Word32(31 * h.hi + (lo \div Half), lo)

RECURSIVE HashOf(_)
\* the value of hash after the loop, as an unsigned 32-bit pattern
HashOf(str) ==
  IF str = <<>> THEN Word32(0, 0)
  ELSE HashStep(HashOf(SubSeq(str, 1, Len(str) - 1)), CharCode(str[Len(str)]))

\* Math.abs of the signed reading of a 32-bit pattern
Abs32(h) ==
  IF h.hi < Half \div 2 THEN h
  ELSE IF h.lo = 0 THEN [hi |-> Half - h.hi, lo |-> 0]
  ELSE [hi |-> Half - 1 - h.hi, lo |-> Half - h.lo]

simpleHash(str) == Abs32(HashOf(str))

\* hash % m
Mod32(h, m) == ((h.hi % m) * (Half % m) + h.lo) % m

RECURSIVE Split(_)
\* String.prototype.split(/\s+/): the pieces between the runs of white space,
\* empty pieces at the ends included; the empty text gives one empty piece
Split(s) ==
  IF \A i \in 1..Len(s) : ~IsSpace(s[i]) THEN <<s>>
  ELSE LET a == CHOOSE i \in 1..Len(s) : IsSpace(s[i]) /\ \A j \in 1..(i - 1) : ~IsSpace(s[j])
           b == CHOOSE i \in a..Len(s) :
                  /\ \A j \in a..i : IsSpace(s[j])
                  /\ i = Len(s) \/ ~IsSpace(s[i + 1])
       IN <<SubSeq(s, 1, a - 1)>> \o Split(SubSeq(s, b + 1, Len(s)))

RECURSIVE SumOver(_, _, _)
\* sum of f[lo] .. f[hi] (the reduce of the source), by halves
SumOver(f, lo, hi) ==
  IF lo > hi THEN 0
  ELSE IF lo = hi THEN f[lo]
  ELSE LET mid == (lo + hi) \div 2
       IN SumOver(f, lo, mid) + SumOver(f, mid + 1, hi)

\* an embedding is num[i] / sqrt(den2) at each index i
SquaredNorm(v) == SumOver([i \in DOMAIN v |-> v[i] * v[i]], 0, EmbeddingDim - 1)

generateFallbackEmbedding(text) ==
  LET words == Split(ToLowerCase(text))
      startIdx == [i \in 1..Len(words) |-> Mod32(simpleHash(words[i]), EmbeddingDim - PatternLen)]
      added(i, k) == IF startIdx[i] <= k /\ k < startIdx[i] + PatternLen
                     THEN WeightScale \div (k - startIdx[i] + 1) ELSE 0
      embedding == [k \in 0..(EmbeddingDim - 1) |->
                      SumOver([i \in 1..Len(words) |-> added(i, k)], 1, Len(words))]
      magnitude2 == SquaredNorm(embedding)
  IN IF magnitude2 > 0
     THEN [num |-> embedding, den2 |-> magnitude2]
     ELSE [num |-> embedding, den2 |-> 1]

\* Math.ceil(text.length / 4)
estimateTokenCount(text) == (Len(text) + 3) \div 4

FallbackTexts ==
  TextsUpTo({"a", "B", " "}, MaxEmbedTextLen) \cup
  Queries \cup
  {<<"a","s","t","h","m","a">>, <<"p","n","e","u","m","o","n","i","a">>}

FallbackEmbeddingCalls ==
  {[fn |-> "generateFallbackEmbedding", text |-> t] : t \in FallbackTexts}

ApplyGenerateFallbackEmbedding ==
  /\ call.fn = "generateFallbackEmbedding"
  /\ ~result.done
  /\ result' = Returned(generateFallbackEmbedding(call.text))
  /\ UNCHANGED <<call, pipelineVars, hookVars>>

\* ------------------------------------------------------ embedding generator
\* what the embedding backend does with a request: the fetch rejects, a
\* non-success status, a payload that is not a non-empty array, an array with
\* values that are not numbers, or an embedding
HfOutcomes == {"rejects", "httpError", "notArray", "notNumbers", "ok"}

\* the embedding a working backend answers with
RemoteEmbedding == [num |-> [k \in 0..(EmbeddingDim - 1) |-> IF k = 0 THEN 1 ELSE 0], den2 |-> 1]

\* generateEmbedding of lib/supabase.ts: the request to the backend is
\* commented out, the fallback embedding is always returned
generateEmbedding(text, hf) ==
  LET cleanText == preprocessMedicalText(text)
  IN [ok |-> TRUE,
      embedding |-> generateFallbackEmbedding(cleanText),
      model |-> "fallback-text-embedding",
      tokens |-> estimateTokenCount(cleanText)]

\* generateEmbedding of the embedding service that calls the backend
generateEmbeddingHF(text, hf) ==
  LET cleanText == preprocessMedicalText(text)
  IN IF hf = "ok"
     THEN [ok |-> TRUE,
           embedding |-> RemoteEmbedding,
           model |-> "sentence-transformers/all-MiniLM-L6-v2",
           tokens |-> estimateTokenCount(cleanText)]
     ELSE [ok |-> FALSE, error |-> EmbeddingFailedMessage]

EmbeddingTexts == {<<>>, QuerySafe, <<"5", " ", "M", "G">>}
EmbeddingCalls ==
  {[fn |-> "generateEmbedding", text |-> t, hf |-> o] : t \in EmbeddingTexts, o \in HfOutcomes}
EmbeddingHFCalls ==
  {[fn |-> "generateEmbeddingHF", text |-> t, hf |-> o] : t \in EmbeddingTexts, o \in HfOutcomes}

ApplyGenerateEmbedding ==
  /\ call.fn = "generateEmbedding"
  /\ ~result.done
  /\ result' = Returned(generateEmbedding(call.text, call.hf))
  /\ UNCHANGED <<call, pipelineVars, hookVars>>

ApplyGenerateEmbeddingHF ==
  /\ call.fn = "generateEmbeddingHF"
  /\ ~result.done
  /\ result' = Returned(generateEmbeddingHF(call.text, call.hf))
  /\ UNCHANGED <<call, pipelineVars, hookVars>>

\* ------------------------------------------------------- cosine similarity
\* longest vector handed to calculateSimilarity
MaxVecLen == 2

DimensionMessage == "Embeddings must have the same dimension"

\* embedding1[0] * embedding2[0] + ... over the indices of embedding1
DotProduct(embedding1, embedding2) ==
  SumOver([i \in 1..Len(embedding1) |-> embedding1[i] * embedding2[i]], 1, Len(embedding1))

calculateSimilarity_truncating(embedding1, embedding2) ==
  LET n == IF Len(embedding1) < Len(embedding2) THEN Len(embedding1) ELSE Len(embedding2)
      e1 == SubSeq(embedding1, 1, n)
      e2 == SubSeq(embedding2, 1, n)
      magnitude2 == DotProduct(e1, e1) * DotProduct(e2, e2)
  IN IF magnitude2 = 0
     THEN [ok |-> TRUE, value |-> [num |-> 0, den2 |-> 1]]
     ELSE [ok |-> TRUE, value |-> [num |-> DotProduct(e1, e2), den2 |-> magnitude2]]

\* calculateSimilarity: the error it throws, or the value num / sqrt(den2)
calculateSimilarity(embedding1, embedding2) ==
  IF Len(embedding1) # Len(embedding2)
  THEN [ok |-> FALSE, error |-> DimensionMessage]
  ELSE LET dotProduct == DotProduct(embedding1, embedding2)
           norm1 == DotProduct(embedding1, embedding1)
           norm2 == DotProduct(embedding2, embedding2)
       IN IF norm1 * norm2 = 0
          THEN [ok |-> TRUE, value |-> [num |-> 0, den2 |-> 1]]
          ELSE [ok |-> TRUE, value |-> [num |-> dotProduct, den2 |-> norm1 * norm2]]

SampleVectors == UNION {[1..n -> {-1, 0, 2}] : n \in 0..MaxVecLen}
SimilarityCalls ==
  {[fn |-> "calculateSimilarity", embedding1 |-> a, embedding2 |-> b] :
     a \in SampleVectors, b \in SampleVectors}

ApplyCalculateSimilarity ==
  /\ call.fn = "calculateSimilarity"
  /\ ~result.done
  /\ result' = Returned(calculateSimilarity(call.embedding1, call.embedding2))
  /\ UNCHANGED <<call, pipelineVars, hookVars>>

\* ------------------------------------------- read loop of the response stream
\* The backend sends data frames, one line each, ending with the [DONE]
\* sentinel.  A frame is [kind, content]: "delta" a JSON payload with the
\* given delta content (possibly empty), "malformed" a data line whose payload
\* is not JSON, "done" the sentinel.  The transport hands the bytes over in
\* reads: cut[i] says that frame i is cut inside its payload, its head ending
\* one read and its tail starting the next; boundary[i] says that a read ends
\* right after frame i.

\* most frames sent before the sentinel
MaxFrames == 2

FrameKinds ==
  {[kind |-> "delta", content |-> <<"a">>], [kind |-> "delta", content |-> <<"b">>],
   [kind |-> "delta", content |-> <<>>], [kind |-> "malformed", content |-> <<>>]}

DoneFrame == [kind |-> "done", content |-> <<>>]

\* the head of a cut frame is a data line that does not parse; its tail is a
\* line that does not start with "data: "
HeadOf(frame) == [kind |-> "head", content |-> <<>>]
TailOf(frame) == [kind |-> "tail", content |-> <<>>]

RECURSIVE Reads(_, _, _, _)
\* the chunks the reader returns, each the lines it contains; open is the
\* chunk being filled
Reads(frames, cut, boundary, open) ==
  IF frames = <<>> THEN (IF open = <<>> THEN <<>> ELSE <<open>>)
  ELSE LET f == Head(frames)
           rest(o) == Reads(Tail(frames), Tail(cut), Tail(boundary), o)
       IN IF Head(cut)
          THEN <<Append(open, HeadOf(f))>> \o
               (IF Head(boundary) THEN <<<<TailOf(f)>>>> \o rest(<<>>)
                                  ELSE rest(<<TailOf(f)>>))
          ELSE IF Head(boundary) THEN <<Append(open, f)>> \o rest(<<>>)
                                 ELSE rest(Append(open, f))

RECURSIVE ReadLoop(_)
\* while (true) { read; for (const line of lines) ... }: the contents yielded
ReadLoop(reads) ==
  IF reads = <<>> THEN <<>> ELSE ProcessLines(Head(reads)) \o ReadLoop(Tail(reads))

\* the increments streamMedicalResponse yields and the content it returns
streamMedicalResponse(reads) ==
  LET yielded == ReadLoop(reads)
  IN [increments |-> yielded, content |-> Concat(yielded)]

\* the streams and the ways the reader cuts them: any set of reads ending
\* between frames, and at most one read ending inside a frame
StreamCalls ==
  UNION {{[fn |-> "streamMedicalResponse", frames |-> Append(fs, DoneFrame),
           cut |-> c, boundary |-> b] :
            fs \in [1..n -> FrameKinds],
            c \in {x \in [1..(n + 1) -> BOOLEAN] :
                     Cardinality({k \in 1..(n + 1) : x[k]}) <= 1},
            b \in [1..(n + 1) -> BOOLEAN]} : n \in 0..MaxFrames}

ApplyStreamMedicalResponse ==
  /\ call.fn = "streamMedicalResponse"
  /\ ~result.done
  /\ result' = Returned(streamMedicalResponse(Reads(call.frames, call.cut, call.boundary, <<>>)))
  /\ UNCHANGED <<call, pipelineVars, hookVars>>

\* ----------------------------------------------------- conversation context
\* most prior messages, and largest maxMessages
MaxTurns == 3
MaxWindow == 3

\* Array.prototype.slice(begin) of a sequence: a negative begin counts from
\* the end, and begin = 0 (also -0) is the start
Slice(seq, begin) ==
  LET k == IF begin < 0
           THEN (IF Len(seq) + begin > 0 THEN Len(seq) + begin ELSE 0)
           ELSE (IF begin < Len(seq) THEN begin ELSE Len(seq))
  IN SubSeq(seq, k + 1, Len(seq))

\* messages.slice(-maxMessages).map(msg => ({ role, content }))
buildConversationContext(messages, maxMessages) ==
  LET recent == Slice(messages, 0 - maxMessages)
  IN [i \in 1..Len(recent) |-> [role |-> recent[i].role, content |-> recent[i].content]]

\* the messages generateMedicalResponse and streamMedicalResponse send: the
\* system prompt, the history, then one user turn with context and query
RequestMessages(conversationHistory, contextText, userQuery) ==
  <<[role |-> "system", content |-> <<"NELSON_SYSTEM_PROMPT">>]>>
  \o conversationHistory
  \o <<[role |-> "user",
        content |-> <<"Context from Nelson Textbook of Pediatrics:\n\n">> \o contextText
                    \o <<"\n\nUser Query: ">> \o userQuery
                    \o <<"\n\nPlease provide a comprehensive, evidence-based response following the chain of thought process.">>]>>

\* a conversation of n stored messages, user and assistant in turn
SampleMessages(n) ==
  [i \in 1..n |-> [id |-> i,
                   role |-> IF i % 2 = 1 THEN "user" ELSE "assistant",
                   content |-> <<"m">> \o NumToString(i)]]

ContextCalls ==
  {[fn |-> "buildConversationContext", messages |-> SampleMessages(n), maxMessages |-> k] :
     n \in 0..MaxTurns, k \in 0..MaxWindow}

ApplyBuildConversationContext ==
  /\ call.fn = "buildConversationContext"
  /\ ~result.done
  /\ LET context == buildConversationContext(call.messages, call.maxMessages)
     IN result' = Returned([context |-> context,
                            request |-> RequestMessages(context, <<"ctx">>, QuerySafe)])
  /\ UNCHANGED <<call, pipelineVars, hookVars>>

\* ------------------------------------------------------------ text chunking
\* longest text handed to chunkMedicalText, largest maxChunkSize and overlap
MaxChunkTextLen == 3
MaxChunkSize == 3
MaxOverlap == 1

\* [.!?]
IsSentenceEnd(c) == c \in {".", "!", "?"}

RECURSIVE SplitSentences(_)
\* String.prototype.split(/[.!?]+/): the pieces between the runs of
\* sentence-ending characters, empty pieces at the ends included
SplitSentences(s) ==
  IF \A i \in 1..Len(s) : ~IsSentenceEnd(s[i]) THEN <<s>>
  ELSE LET a == CHOOSE i \in 1..Len(s) :
                  IsSentenceEnd(s[i]) /\ \A j \in 1..(i - 1) : ~IsSentenceEnd(s[j])
           b == CHOOSE i \in a..Len(s) :
                  /\ \A j \in a..i : IsSentenceEnd(s[j])
                  /\ i = Len(s) \/ ~IsSentenceEnd(s[i + 1])
       IN <<SubSeq(s, 1, a - 1)>> \o SplitSentences(SubSeq(s, b + 1, Len(s)))

HasContent(s) == Trim(s) # <<>>

RECURSIVE Join(_, _)
\* Array.prototype.join(sep)
Join(parts, sep) ==
  IF parts = <<>> THEN <<>>
  ELSE IF Len(parts) = 1 THEN parts[1]
  ELSE parts[1] \o sep \o Join(Tail(parts), sep)

RECURSIVE ChunkLoop(_, _, _, _, _)
\* the for loop over the sentences and the final push
ChunkLoop(sentences, chunks, currentChunk, maxChunkSize, overlap) ==
  IF sentences = <<>>
  THEN IF Trim(currentChunk) # <<>> THEN Append(chunks, Trim(currentChunk)) ELSE chunks
  ELSE LET trimmedSentence == Trim(Head(sentences)) IN
       IF Len(currentChunk) + Len(trimmedSentence) > maxChunkSize /\ Len(currentChunk) > 0
       THEN LET words == Split(Trim(currentChunk))
                overlapWords == Join(Slice(words, 0 - overlap), <<" ">>)
            IN ChunkLoop(Tail(sentences), Append(chunks, Trim(currentChunk)),
                         overlapWords \o <<" ">> \o trimmedSentence, maxChunkSize, overlap)
       ELSE ChunkLoop(Tail(sentences), chunks,
                      currentChunk \o (IF currentChunk # <<>> THEN <<".", " ">> ELSE <<>>)
                                   \o trimmedSentence,
                      maxChunkSize, overlap)

chunkMedicalText(text, maxChunkSize, overlap) ==
  ChunkLoop(SelectSeq(SplitSentences(text), HasContent), <<>>, <<>>, maxChunkSize, overlap)

ChunkCalls ==
  {[fn |-> "chunkMedicalText", text |-> t, maxChunkSize |-> m, overlap |-> o] :
     t \in TextsUpTo({"a", "b", " ", "."}, MaxChunkTextLen),
     m \in 1..MaxChunkSize, o \in 0..MaxOverlap}

ApplyChunkMedicalText ==
  /\ call.fn = "chunkMedicalText"
  /\ ~result.done
  /\ result' = Returned(chunkMedicalText(call.text, call.maxChunkSize, call.overlap))
  /\ UNCHANGED <<call, pipelineVars, hookVars>>

\* ---------------------------------------------------- library specification
PureCalls ==
  ConfidenceCalls \cup VectorSearchCalls \cup ChapterSearchCalls \cup HybridSearchCalls
    \cup NormaliseCalls
    \cup FallbackEmbeddingCalls \cup EmbeddingCalls \cup EmbeddingHFCalls
    \cup SimilarityCalls
    \cup StreamCalls
    \cup ContextCalls
    \cup ChunkCalls

\* the pipeline is idle; one library function is about to be applied
PureInit ==
  /\ call \in PureCalls
  /\ result = Pending
  /\ query = QuerySafe
  /\ sessionId = ""
  /\ mode = [p \in Inv |-> "blocking"]
  /\ backend = [db |-> Unset, embed |-> Unset, vector |-> Unset, lexical |-> Unset, gen |-> Unset]
  /\ pc = [p \in Inv |-> "Idle"]
  /\ path = [p \in Inv |-> <<>>]
  /\ events = [p \in Inv |-> <<>>]
  /\ thrown = [p \in Inv |-> ""]
  /\ local = [p \in Inv |-> InitLocal]
  /\ answer = [p \in Inv |-> NoAnswer]
  /\ chat_messages = <<>>
  /\ message_count = [s \in SessionIds \ {""} |-> 0]
  /\ HookMounted
  /\ options = DefaultOptions

PureNext ==
  \/ ApplyDetermineConfidence
  \/ ApplyMatchNelsonChunks
  \/ ApplyMatchNelsonChunksByChapter
  \/ ApplyHybridSearchNelson
  \/ ApplyPreprocessMedicalText
  \/ ApplyGenerateFallbackEmbedding
  \/ ApplyGenerateEmbedding
  \/ ApplyGenerateEmbeddingHF
  \/ ApplyCalculateSimilarity
  \/ ApplyStreamMedicalResponse
  \/ ApplyBuildConversationContext
  \/ ApplyChunkMedicalText

PureSpec == PureInit /\ [][PureNext]_vars

Applied(fn) == call.fn = fn /\ result.done

\* C13: determineConfidence returns high exactly when there are at least
\* three documents and the text contains the corpus name; otherwise medium
\* exactly when there is at least one document and the text is longer than
\* 200 characters; otherwise low.  With no documents it is low, and a text of
\* exactly 200 characters without the corpus name gives low.
C13_ConfidenceRule ==
  Applied("determineConfidence") =>
    LET n == Len(call.docs)
        named == \E i \in 1..Len(call.content) : call.content[i] = "Nelson Textbook"
        length == StrLen(call.content)
        high == n >= 3 /\ named
        medium == ~high /\ n >= 1 /\ length > 200
    IN
    /\ result.value = "high" <=> high
    /\ result.value = "medium" <=> medium
    /\ result.value = "low" <=> (~high /\ ~medium)
    /\ n = 0 => result.value = "low"
    /\ (n >= 1 /\ length = 200 /\ ~named) => result.value = "low"

\* one document and a text of exactly 200 characters without the corpus name
C13_Witness ==
  /\ Applied("determineConfidence")
  /\ Len(call.docs) = 1
  /\ call.content = <<"x199", "y">>
  /\ result.value = "low"

C13_WitnessHigh ==
  /\ Applied("determineConfidence")
  /\ Len(call.docs) = 3
  /\ call.content = <<"y", "Nelson Textbook">>
  /\ result.value = "high"

NonIncreasing(scores) ==
  \A i, j \in 1..Len(scores) : i < j => scores[i] >= scores[j]

Similarities(rows) == [i \in 1..Len(rows) |-> rows[i].similarity]
Blends(rows) == [i \in 1..Len(rows) |-> 7 * rows[i].similarity + 3 * rows[i].text_rank]

RetrievalApplied ==
  \/ Applied("match_nelson_chunks")
  \/ Applied("match_nelson_chunks_by_chapter")
  \/ Applied("hybrid_search_nelson")

\* C15 (as stated): every non-empty result of vector search, chapter-scoped
\* search and hybrid search has non-increasing similarity by rank.
C15_SimilarityNonIncreasing ==
  RetrievalApplied => NonIncreasing(Similarities(result.value))

\* C15 (amended): the results of vector search and of chapter-scoped search
\* have non-increasing similarity by rank; the results of hybrid search have
\* non-increasing blended score 0.7 * similarity + 0.3 * textRank by rank.
C15_RankOrder ==
  /\ (Applied("match_nelson_chunks") \/ Applied("match_nelson_chunks_by_chapter"))
       => NonIncreasing(Similarities(result.value))
  /\ Applied("hybrid_search_nelson") => NonIncreasing(Blends(result.value))

\* a vector result of three ranks with two different similarities
C15_Witness ==
  /\ Applied("match_nelson_chunks")
  /\ Len(result.value) = 3
  /\ result.value[1].similarity > result.value[3].similarity

\* a hybrid result whose similarity increases with rank
C15_WitnessHybrid ==
  /\ Applied("hybrid_search_nelson")
  /\ Len(result.value) >= 2
  /\ result.value[1].similarity < result.value[2].similarity

\* the qualifying chunks of a vector search: those with an embedding whose
\* similarity is strictly above the threshold (and, in the chapter-scoped
\* search, whose chapter title equals the filter)
Qualifying ==
  {id \in DOMAIN call.table :
     /\ call.table[id].embedded
     /\ 100 - call.table[id].distance > call.match_threshold
     /\ call.fn = "match_nelson_chunks_by_chapter"
          => call.table[id].chapter_title = call.chapter_filter}

Min(a, b) == IF a < b THEN a ELSE b

C16_WitnessAtThreshold ==
  /\ Applied("match_nelson_chunks")
  /\ call.match_threshold = 80
  /\ \E id \in DOMAIN call.table : call.table[id].embedded /\ call.table[id].distance = 20
  /\ Len(result.value) = 1

\* a chapter-scoped search that leaves out a more similar chunk of another chapter
C16_WitnessChapter ==
  /\ Applied("match_nelson_chunks_by_chapter")
  /\ Len(result.value) = 1
  /\ result.value[1].similarity = 80
  /\ \E id \in DOMAIN call.table :
       /\ call.table[id].embedded /\ call.table[id].distance = 10
       /\ call.table[id].chapter_title = "Sepsis"

\* C17: hybrid search returns only chunks of the vector candidate set (an
\* embedding and similarity strictly above the threshold), at most maxCount of
\* them, ranked by 0.7 * similarity + 0.3 * textRank non-increasing, with
\* textRank 0 for a chunk the text search did not match; a chunk with
\* similarity 0.8 and textRank 0.5 ranks ahead of a chunk with similarity 0.9
\* and no lexical match.
C17_HybridBlend ==
  Applied("hybrid_search_nelson") =>
    LET rows == result.value IN
    /\ \A i \in 1..Len(rows) : rows[i].id \in Qualifying
    /\ \A i, j \in 1..Len(rows) : i # j => rows[i].id # rows[j].id
    /\ Len(rows) = Min(call.match_count, Cardinality(Qualifying))
    /\ \A i \in 1..Len(rows) :
         LET row == call.table[rows[i].id] IN
         /\ rows[i].similarity = 100 - row.distance
         /\ rows[i].text_rank = IF row.matched THEN row.text_rank ELSE 0
    /\ NonIncreasing(Blends(rows))
    /\ \A id \in Qualifying \ {rows[i].id : i \in 1..Len(rows)} : \A i \in 1..Len(rows) :
         LET row == call.table[id] IN
         7 * (100 - row.distance) + 3 * (IF row.matched THEN row.text_rank ELSE 0)
           <= Blends(rows)[i]
    /\ \A i, j \in 1..Len(rows) :
         (/\ rows[i].similarity = 80 /\ call.table[rows[i].id].matched /\ rows[i].text_rank = 50
          /\ rows[j].similarity = 90 /\ ~call.table[rows[j].id].matched)
           => i < j

\* the chunk (0.8, 0.5) at rank 1 and the chunk (0.9, no match) at rank 2,
\* with a chunk that only the text search matches left out
C17_Witness ==
  /\ Applied("hybrid_search_nelson")
  /\ Len(result.value) = 2
  /\ result.value[1].similarity = 80 /\ result.value[1].text_rank = 50
  /\ result.value[2].similarity = 90 /\ result.value[2].text_rank = 0
  /\ \E id \in DOMAIN call.table : ~call.table[id].embedded /\ call.table[id].matched

\* C18: preprocessMedicalText is idempotent: applied to its own result it
\* returns that result unchanged.
C18_NormaliseIdempotent ==
  Applied("preprocessMedicalText") =>
    preprocessMedicalText(result.value) = result.value

\* what the normaliser does keep: its result has no leading, trailing or
\* doubled white space and no doubled full stop
C18_NormalisedShape ==
  Applied("preprocessMedicalText") =>
    LET r == result.value IN
    /\ r # <<>> => (~IsSpace(r[1]) /\ ~IsSpace(r[Len(r)]))
    /\ \A i \in 1..(Len(r) - 1) : ~(IsSpace(r[i]) /\ IsSpace(r[i + 1]))
    /\ \A i \in 1..(Len(r) - 1) : ~(r[i] = "." /\ r[i + 1] = ".")
    /\ \A i \in 1..Len(r) : IsSpace(r[i]) => r[i] = " "

\* "5 MG" becomes "5 mg", which a second pass turns into "5mg"
C18_NotIdempotent ==
  /\ Applied("preprocessMedicalText")
  /\ call.text = <<"5", " ", "M", "G">>
  /\ result.value = <<"5", " ", "m", "g">>
  /\ preprocessMedicalText(result.value) = <<"5", "m", "g">>

BackendFails == call.hf # "ok"

\* C19: when the embedding backend is unavailable, answers with a non-success
\* status or with a malformed payload, generateEmbedding does not throw: it
\* returns the fallback embedding of the normalised text with the model tag
\* fallback-text-embedding.
C19_EmbeddingFallback ==
  ((Applied("generateEmbedding") \/ Applied("generateEmbeddingHF")) /\ BackendFails) =>
    /\ result.value.ok
    /\ result.value.model = "fallback-text-embedding"
    /\ result.value.embedding = generateFallbackEmbedding(preprocessMedicalText(call.text))

\* the generateEmbedding of lib/supabase.ts alone keeps C19
C19_SupabaseVersion ==
  (Applied("generateEmbedding") /\ BackendFails) =>
    /\ result.value.ok
    /\ result.value.model = "fallback-text-embedding"
    /\ result.value.embedding = generateFallbackEmbedding(preprocessMedicalText(call.text))

\* the embedding service that calls the backend throws when the backend fails
C19_Throws ==
  /\ Applied("generateEmbeddingHF")
  /\ call.hf = "httpError"
  /\ ~result.value.ok
  /\ result.value.error = "Failed to generate text embedding"

IsZeroVector(v) == \A i \in DOMAIN v.num : v.num[i] = 0
HasUnitNorm(v) == SquaredNorm(v.num) = v.den2
NoTokens(text) == \A i \in 1..Len(text) : IsSpace(text[i])

\* C20: the fallback embedding has L2 norm 1 or is exactly the zero vector,
\* and it is exactly the zero vector when the text is empty (has no tokens).
C20_FallbackNorm ==
  Applied("generateFallbackEmbedding") =>
    /\ HasUnitNorm(result.value) \/ IsZeroVector(result.value)
    /\ NoTokens(call.text) => IsZeroVector(result.value)

\* what the code does instead: every result, that of the empty text included,
\* has norm 1 and is not the zero vector
C20_AlwaysUnitNorm ==
  Applied("generateFallbackEmbedding") =>
    HasUnitNorm(result.value) /\ ~IsZeroVector(result.value)

\* the empty text gives the pattern of the empty word at indices 0..9
C20_EmptyText ==
  /\ Applied("generateFallbackEmbedding")
  /\ call.text = <<>>
  /\ result.value.num[0] = 2520 /\ result.value.num[9] = 252 /\ result.value.num[10] = 0

ZeroMagnitude(v) == \A i \in 1..Len(v) : v[i] = 0

\* C21: calculateSimilarity throws the dimension error exactly when the two
\* vectors have different lengths; for vectors of equal length it returns a
\* value, and that value is 0 whenever one of the vectors has zero magnitude.
C21_SimilarityDimension ==
  Applied("calculateSimilarity") =>
    LET a == call.embedding1
        b == call.embedding2
        r == result.value
    IN
    /\ ~r.ok <=> Len(a) # Len(b)
    /\ ~r.ok => r.error = "Embeddings must have the same dimension"
    /\ r.ok => r.value.den2 > 0
    /\ (r.ok /\ (ZeroMagnitude(a) \/ ZeroMagnitude(b))) => r.value.num = 0

\* vectors of different lengths whose common prefix has positive magnitude
C21_Witness ==
  /\ Applied("calculateSimilarity")
  /\ call.embedding1 = <<2>>
  /\ call.embedding2 = <<2, -1>>
  /\ ~result.value.ok

\* a zero vector against a non-zero vector of the same length gives 0
C21_WitnessZero ==
  /\ Applied("calculateSimilarity")
  /\ call.embedding1 = <<0, 0>>
  /\ call.embedding2 = <<2, -1>>
  /\ result.value.ok /\ result.value.value.num = 0

\* number of searchNelsonChunks calls an invocation has made
LexicalCalls(p) ==
  Cardinality({i \in 1..Len(events[p]) : events[p][i] = Call("searchNelsonChunks")})

VectorFound == backend.vector.set /\ backend.vector.ok /\ backend.vector.rows # <<>>

\* C22: in the blocking and in the streaming pipeline, a finished invocation
\* whose vector search returned zero rows has attempted the lexical text
\* search exactly once, and an invocation whose vector search returned at
\* least one row never attempts it.
C22_LexicalFallbackOnce ==
  \A p \in Inv :
    Called(p, "searchSimilarDocuments") =>
      /\ (VectorEmpty /\ pc[p] = "Done") => LexicalCalls(p) = 1
      /\ VectorFound => LexicalCalls(p) = 0

\* the blocking pipeline alone keeps C22, with at most 3 fallback documents
C22_BlockingFallback ==
  \A p \in Inv :
    (mode[p] = "blocking" /\ Called(p, "searchSimilarDocuments")) =>
      /\ (VectorEmpty /\ pc[p] = "Done") =>
           (LexicalCalls(p) = 1 /\ Len(answer[p].retrievedDocuments) <= 3)
      /\ VectorFound => LexicalCalls(p) = 0

\* a streaming invocation that finished on an empty vector search without
\* any lexical search
C22_StreamingNoFallback ==
  /\ mode["B"] = "streaming"
  /\ pc["B"] = "Done"
  /\ VectorEmpty
  /\ Called("B", "searchSimilarDocuments")
  /\ LexicalCalls("B") = 0

\* C23: a streaming invocation that was given a session id and whose
\* generation stream completed has, before it is done, called the store for
\* the user message and then (unless that call failed) for the assistant
\* message, as the blocking pipeline does.
C23_StreamingPersists ==
  \A p \in Inv :
    (StreamCompleted(p) /\ sessionId # "") =>
      /\ SaveRoles(p) # <<>>
      /\ SaveRoles(p)[1] = "user"
      /\ ~local[p].saveError => SaveRoles(p) = <<"user", "assistant">>

\* the blocking pipeline persists after a successful generation
C23_BlockingPersists ==
  \A p \in Inv :
    (/\ mode[p] = "blocking" /\ pc[p] = "Done" /\ sessionId # ""
     /\ Called(p, "generateMedicalResponse") /\ GenerationSucceeds /\ VectorFound) =>
      /\ SaveRoles(p) # <<>>
      /\ SaveRoles(p)[1] = "user"
      /\ ~local[p].saveError => SaveRoles(p) = <<"user", "assistant">>

\* a completed stream with a session id and nothing stored
C23_NothingStored ==
  /\ sessionId = "s1"
  /\ StreamCompleted("B")
  /\ pc["A"] = "Validating"
  /\ SaveRoles("B") = <<>>
  /\ chat_messages = <<>>

IsWellFormedDelta(frame) == frame.kind = "delta" /\ frame.content # <<>>

\* the non-empty delta contents of the well-formed frames, in arrival order
SentContents(frames) ==
  LET sent == SelectSeq(frames, IsWellFormedDelta)
  IN [i \in 1..Len(sent) |-> sent[i].content]

NoFrameCut == \A i \in 1..Len(call.cut) : ~call.cut[i]

\* C24: for every sequence of well-formed and malformed frames,
\* streamMedicalResponse yields exactly the non-empty delta contents of the
\* well-formed frames, in arrival order, and returns their concatenation as
\* content: a malformed frame is skipped and does not end the stream.
C24_MalformedSkipped ==
  Applied("streamMedicalResponse") =>
    /\ result.value.increments = SentContents(call.frames)
    /\ result.value.content = Concat(SentContents(call.frames))

\* C24 holds when the transport cuts no frame
C24_WholeFrames ==
  (Applied("streamMedicalResponse") /\ NoFrameCut) =>
    /\ result.value.increments = SentContents(call.frames)
    /\ result.value.content = Concat(SentContents(call.frames))

\* a malformed frame between two well-formed ones, all arriving whole
C24_SkipsMalformed ==
  /\ Applied("streamMedicalResponse")
  /\ NoFrameCut
  /\ call.frames[1].kind = "delta" /\ call.frames[1].content = <<"a">>
  /\ call.frames[2].kind = "malformed"
  /\ result.value.increments = << <<"a">> >>

AllWellFormed(frames) ==
  \A i \in 1..Len(frames) : frames[i].kind \in {"delta", "done"}

\* C27: for a fixed sequence of well-formed data frames, the content
\* streamMedicalResponse returns is the same for every way the transport
\* splits the bytes into reads, frames cut in the middle included: it is the
\* content returned when all frames arrive in one read.
C27_PartitionIndependent ==
  (Applied("streamMedicalResponse") /\ AllWellFormed(call.frames)) =>
    result.value.content = streamMedicalResponse(<<call.frames>>).content

\* reads that end between frames lose nothing
C27_BoundariesHarmless ==
  (Applied("streamMedicalResponse") /\ AllWellFormed(call.frames) /\ NoFrameCut) =>
    result.value.content = streamMedicalResponse(<<call.frames>>).content

\* two frames "a" and "b", the second cut in its payload: only "a" is returned
C27_CutFrameLost ==
  /\ Applied("streamMedicalResponse")
  /\ call.frames = <<[kind |-> "delta", content |-> <<"a">>],
                     [kind |-> "delta", content |-> <<"b">>], DoneFrame>>
  /\ call.cut = <<FALSE, TRUE, FALSE>>
  /\ result.value.content = <<"a">>

\* the last n messages of a list, as role and content
LastTurns(messages, n) ==
  [i \in 1..n |-> [role |-> messages[Len(messages) - n + i].role,
                   content |-> messages[Len(messages) - n + i].content]]

\* C25: for every message list and every maxMessages >= 0,
\* buildConversationContext returns the last min(maxMessages, length)
\* messages in their order, so at most maxMessages of them, and the request
\* sent to the generation backend is the system instruction, those turns and
\* exactly one user turn with the context block and the query.
C25_BoundedWindow ==
  Applied("buildConversationContext") =>
    LET context == result.value.context
        request == result.value.request
        n == Min(call.maxMessages, Len(call.messages))
    IN
    /\ context = LastTurns(call.messages, n)
    /\ Len(context) <= call.maxMessages
    /\ Len(request) = Len(context) + 2
    /\ request[1].role = "system"
    /\ SubSeq(request, 2, Len(request) - 1) = context
    /\ request[Len(request)].role = "user"
    /\ Includes(request[Len(request)].content, QuerySafe)

\* C25 holds for every maxMessages >= 1
C25_PositiveWindow ==
  (Applied("buildConversationContext") /\ call.maxMessages >= 1) =>
    LET context == result.value.context
        n == Min(call.maxMessages, Len(call.messages))
    IN
    /\ context = LastTurns(call.messages, n)
    /\ Len(context) <= call.maxMessages
    /\ SubSeq(result.value.request, 2, Len(result.value.request) - 1) = context

\* maxMessages = 0 returns the whole list
C25_ZeroWindow ==
  /\ Applied("buildConversationContext")
  /\ call.maxMessages = 0
  /\ Len(call.messages) = 3
  /\ Len(result.value.context) = 3

\* the non-empty sentences of a text, trimmed, in order
SentencesOf(text) ==
  LET kept == SelectSeq(SplitSentences(text), HasContent)
  IN [i \in 1..Len(kept) |-> Trim(kept[i])]

\* every sentence occurs in some chunk, the chunks of successive sentences
\* not going backwards
InOrder(sentences, chunks) ==
  \E at \in [1..Len(sentences) -> 1..Len(chunks)] :
    /\ \A i \in 1..Len(sentences) : Includes(chunks[at[i]], sentences[i])
    /\ \A i, j \in 1..Len(sentences) : i < j => at[i] <= at[j]

\* C26: for every text, maxChunkSize > 0 and overlap >= 0, every chunk that
\* chunkMedicalText returns is at most maxChunkSize characters long, and every
\* non-empty sentence of the text occurs in some chunk, in the original order.
C26_ChunksBounded ==
  Applied("chunkMedicalText") =>
    /\ \A i \in 1..Len(result.value) : Len(result.value[i]) <= call.maxChunkSize
    /\ InOrder(SentencesOf(call.text), result.value)

\* the part of C26 that the code keeps: no sentence is lost or reordered
C26_SentencesKept ==
  Applied("chunkMedicalText") => InOrder(SentencesOf(call.text), result.value)

\* one sentence of two characters with maxChunkSize 1 gives a chunk of two
C26_Oversized ==
  /\ Applied("chunkMedicalText")
  /\ call.text = <<"a", "b">>
  /\ call.maxChunkSize = 1
  /\ result.value = << <<"a", "b">> >>

\* two sentences that fit the size test are joined with ". " and exceed it
C26_SeparatorUncounted ==
  /\ Applied("chunkMedicalText")
  /\ call.text = <<"a", ".", "b">>
  /\ call.maxChunkSize = 2
  /\ result.value = << <<"a", ".", " ", "b">> >>


\* ------------------------------------------------------------ C28
SaveSteps == {"SaveInsert", "SaveCount", "SaveUpdate"}

StoredMessages(s) == Cardinality({i \in 1..Len(chat_messages) : chat_messages[i].session_id = s})

\* no saveChatMessage call is in progress and none has failed, visibly or not
SavesSucceeded ==
  /\ sessionId # ""
  /\ \A p \in Inv : /\ pc[p] \notin SaveSteps
                    /\ ~local[p].saveError
                    /\ ~local[p].ignoredError

\* C28: after any sequence of successful saveChatMessage calls on a session,
\* sequential or interleaved, the session's message_count equals the number
\* of messages stored for the session
C28_CountMatchesMessages ==
  SavesSucceeded => message_count[sessionId] = StoredMessages(sessionId)

\* what the code keeps instead: the count is taken after the insert and
\* incremented again, so it is never below 2 and at most one above the rows
C28_AtMostOneAhead ==
  (SavesSucceeded /\ StoredMessages(sessionId) > 0) =>
    /\ message_count[sessionId] >= 2
    /\ message_count[sessionId] <= StoredMessages(sessionId) + 1

\* one invocation alone stored its two messages and left message_count at 3
C28_OneAhead ==
  /\ SavesSucceeded
  /\ pc["A"] = "Done" /\ SaveRoles("A") = <<"user", "assistant">>
  /\ SaveRoles("B") = <<>> /\ pc["B"] = "Done"
  /\ StoredMessages(sessionId) = 2
  /\ message_count[sessionId] = 3

\* two interleaved invocations stored four messages; the last update wrote a
\* count read before the other invocation's last insert
C28_Interleaved ==
  /\ SavesSucceeded
  /\ StoredMessages(sessionId) = 4
  /\ message_count[sessionId] = StoredMessages(sessionId)


\* ================================================================ useChat
\* The hook's callbacks are rebuilt at every render from the values of that
\* render (dependency lists at 526, 542, 552, 683, 704 name every cell they
\* read), so an event handler runs with the cells of the last render, while
\* the state setters act on the current cells.

\* bound: strings one streamNelsonQuery call yields to the hook
MaxYields == 2
\* slice(-6) of buildConversationHistory
HistoryWindow == 6

Contents == {<<>>, <<" ">>, <<"q">>}

UserMessage(i, content) ==
  [id |-> <<"user", i>>, role |-> "user", content |-> Trim(content), isStreaming |-> FALSE]
StreamingMessage(i) ==
  [id |-> <<"assistant", i>>, role |-> "assistant", content |-> <<>>, isStreaming |-> TRUE]
AssistantMessage(i) ==
  [id |-> <<"assistant", i>>, role |-> "assistant", content |-> <<"response">>,
   isStreaming |-> FALSE]

IsNotWelcome(msg) == msg.id # Welcome.id
IsUser(msg) == msg.role = "user"

\* buildConversationHistory of a render: welcome message out, last 6, role and content
buildConversationHistory(c) ==
  LET recent == Slice(SelectSeq(c.messages, IsNotWelcome), 0 - HistoryWindow)
  IN [k \in 1..Len(recent) |-> [role |-> recent[k].role, content |-> recent[k].content]]

\* clearMessages of a render, applied to the cells h
clearMessages(h, c) ==
  [h EXCEPT !.messages = <<c.messages[1]>>, !.currentSession = "", !.error = ""]

\* the finally block of sendMessage
Finally(h) == [h EXCEPT !.isLoading = FALSE]

\* the next invocation to be made
NextSend(i) ==
  /\ sends[i].pc = "NotCalled"
  /\ \A j \in SendIds : j < i => sends[j].pc # "NotCalled"

\* sendMessage of render c with argument content, up to its first await; base
\* is the message list the queued updates start from
SendBody(i, c, content, base) ==
  IF Trim(content) = <<>> \/ c.isLoading
  THEN /\ hook' = [hook EXCEPT !.messages = base]
       /\ sends' = [sends EXCEPT ![i].pc = "Returned", ![i].closure = c, ![i].before = base]
  ELSE /\ hook' = [hook EXCEPT
                     !.isLoading = TRUE,
                     !.error = "",
                     !.messages = base \o <<UserMessage(i, content)>> \o
                                  (IF options.enableStreaming THEN <<StreamingMessage(i)>>
                                   ELSE <<>>)]
       /\ sends' = [sends EXCEPT ![i] =
                      [pc |-> IF options.enableStreaming THEN "Streaming" ELSE "Awaiting",
                       closure |-> c,
                       conversationHistory |-> buildConversationHistory(c),
                       fullContent |-> <<>>,
                       created |-> FALSE,
                       before |-> base,
                       stale |-> (c.isLoading # hook.isLoading)]]

\* a user event calls sendMessage of the last render
SendMessage(i) ==
  /\ NextSend(i)
  /\ \E content \in Contents : SendBody(i, rendered, content, hook.messages)
  /\ UNCHANGED <<rendered, options, call, result, pipelineVars>>

\* the filter of regenerateLastResponse: the last message goes if it is an
\* assistant message
WithoutLastAssistant(msgs) ==
  IF Len(msgs) > 0 /\ msgs[Len(msgs)].role = "assistant"
  THEN SubSeq(msgs, 1, Len(msgs) - 1)
  ELSE msgs

\* a user event calls regenerateLastResponse of the last render; without a
\* user message in that render it only shows a toast
RegenerateLastResponse(i) ==
  /\ NextSend(i)
  /\ LET users == SelectSeq(rendered.messages, IsUser)
     IN /\ Len(users) > 0
        /\ SendBody(i, rendered, users[Len(users)].content, WithoutLastAssistant(hook.messages))
  /\ UNCHANGED <<rendered, options, call, result, pipelineVars>>

\* React renders the component with the current cells
Render ==
  /\ rendered # hook
  /\ rendered' = hook
  /\ UNCHANGED <<hook, sends, options, call, result, pipelineVars>>


\* the update of the streaming message of invocation i
UpdateStreaming(msgs, i, content, streaming) ==
  [k \in 1..Len(msgs) |->
     IF msgs[k].id = StreamingMessage(i).id
     THEN [msgs[k] EXCEPT !.content = content, !.isStreaming = streaming]
     ELSE msgs[k]]

\* after the reply: createNewSession is awaited when the render had no
\* session and autoSave is on, otherwise the finally block runs
AfterReply(i, h) ==
  IF sends[i].closure.currentSession = "" /\ options.autoSave
  THEN /\ hook' = h
       /\ sends' = [sends EXCEPT ![i].pc = "CreatingSession"]
  ELSE /\ hook' = Finally(h)
       /\ sends' = [sends EXCEPT ![i].pc = "Done"]

\* for await: streamNelsonQuery yields a string
StreamYield(i) ==
  /\ sends[i].pc = "Streaming"
  /\ Len(sends[i].fullContent) < MaxYields
  /\ LET fullContent == Append(sends[i].fullContent, "chunk")
     IN /\ sends' = [sends EXCEPT ![i].fullContent = fullContent]
        /\ hook' = [hook EXCEPT !.messages = UpdateStreaming(@, i, fullContent, TRUE)]
  /\ UNCHANGED <<rendered, options, call, result, pipelineVars>>

\* the generator is done (it has yielded at least its status or error text;
\* its return value does not reach the loop, so finalResponse stays null)
StreamReturn(i) ==
  /\ sends[i].pc = "Streaming"
  /\ Len(sends[i].fullContent) >= 1
  /\ AfterReply(i, [hook EXCEPT
                      !.messages = UpdateStreaming(@, i, sends[i].fullContent, FALSE)])
  /\ UNCHANGED <<rendered, options, call, result, pipelineVars>>

\* processNelsonQuery resolves (it returns a response for errors too)
ProcessReturn(i) ==
  /\ sends[i].pc = "Awaiting"
  /\ AfterReply(i, [hook EXCEPT !.messages = Append(@, AssistantMessage(i))])
  /\ UNCHANGED <<rendered, options, call, result, pipelineVars>>

\* createNewSession of the invocation's render: createChatSession resolves or
\* rejects; then the finally block of sendMessage
SessionCreated(i) ==
  /\ sends[i].pc = "CreatingSession"
  /\ \E ok \in BOOLEAN :
       /\ hook' = IF ok
                  THEN Finally(clearMessages([hook EXCEPT !.currentSession = "s1"],
                                             sends[i].closure))
                  ELSE Finally(hook)
       /\ sends' = [sends EXCEPT ![i].pc = "Done", ![i].created = ok]
  /\ UNCHANGED <<rendered, options, call, result, pipelineVars>>

HookInit ==
  /\ HookMounted
  /\ options \in [enableStreaming : BOOLEAN, autoSave : BOOLEAN]
  /\ call = NoCall
  /\ result = Pending
  /\ query = QuerySafe
  /\ sessionId = ""
  /\ mode = [p \in Inv |-> "blocking"]
  /\ backend = [db |-> Unset, embed |-> Unset, vector |-> Unset, lexical |-> Unset, gen |-> Unset]
  /\ pc = [p \in Inv |-> "Idle"]
  /\ path = [p \in Inv |-> <<>>]
  /\ events = [p \in Inv |-> <<>>]
  /\ thrown = [p \in Inv |-> ""]
  /\ local = [p \in Inv |-> InitLocal]
  /\ answer = [p \in Inv |-> NoAnswer]
  /\ chat_messages = <<>>
  /\ message_count = [s \in SessionIds \ {""} |-> 0]

HookStep(i) ==
  \/ SendMessage(i)
  \/ RegenerateLastResponse(i)
  \/ StreamYield(i)
  \/ StreamReturn(i)
  \/ ProcessReturn(i)
  \/ SessionCreated(i)

HookNext ==
  \/ \E i \in SendIds : HookStep(i)
  \/ Render

HookSpec == HookInit /\ [][HookNext]_vars

\* ------------------------------------------------------------ C29
InFlight(i) == sends[i].pc \in {"Streaming", "Awaiting", "CreatingSession"}
Started(i) == sends[i].pc \in {"Streaming", "Awaiting", "CreatingSession", "Done"}
UserMessagesOf(i) ==
  {k \in 1..Len(hook.messages) : hook.messages[k].id = UserMessage(i, <<>>).id}

\* C29: at most one pipeline invocation is in flight at a time, under every
\* interleaving of user events and renders, and isLoading is false again
\* once every send has finished
C29_SingleFlight ==
  /\ Cardinality({i \in SendIds : InFlight(i)}) <= 1
  /\ (\A i \in SendIds : ~InFlight(i)) => ~hook.isLoading

\* what the guard gives: a second pipeline starts only from a render that
\* did not yet show isLoading
C29_GuardOfLastRender ==
  /\ (\A i \in SendIds : ~sends[i].stale) => Cardinality({i \in SendIds : InFlight(i)}) <= 1
  /\ (\A i \in SendIds : ~InFlight(i)) => ~hook.isLoading

\* two sends made before the render that shows isLoading: two pipelines in
\* flight and two user messages
C29_TwoInFlight ==
  /\ InFlight(1) /\ InFlight(2)
  /\ sends[2].stale
  /\ UserMessagesOf(1) # {} /\ UserMessagesOf(2) # {}

\* a send made after that render starts nothing
C29_Refused ==
  /\ InFlight(1)
  /\ sends[2].pc = "Returned" /\ sends[2].closure.isLoading
  /\ UserMessagesOf(2) = {}


\* ------------------------------------------------------------ C30
Ids(msgs) == [k \in 1..Len(msgs) |-> msgs[k].id]

\* invocation i ran alone: no other sendMessage was started
Alone(i) == \A j \in SendIds \ {i} : ~Started(j) /\ sends[j].pc # "Returned"

\* the list a completed send should leave: the messages from before the
\* call, the new user message, the assistant's reply
Kept(i) == Ids(sends[i].before) \o <<UserMessage(i, <<>>).id, StreamingMessage(i).id>>

\* C30: after sendMessage completes, the message list still contains every
\* message from before the call, followed by the new user message and the
\* reply, also on the first send, when a session is auto-created
C30_NothingLost ==
  \A i \in SendIds :
    (sends[i].pc = "Done" /\ Alone(i)) => Ids(hook.messages) = Kept(i)

\* the list is kept when no session was created: autoSave off, or
\* createChatSession failed
C30_KeptWithoutSession ==
  \A i \in SendIds :
    (sends[i].pc = "Done" /\ Alone(i) /\ ~sends[i].created) => Ids(hook.messages) = Kept(i)

\* a created session clears the list down to the welcome message and leaves
\* currentSession null
C30_ClearedBySession ==
  \A i \in SendIds :
    (sends[i].pc = "Done" /\ Alone(i) /\ sends[i].created) =>
      /\ hook.messages = <<Welcome>>
      /\ hook.currentSession = ""

\* the first send with the default options: the session was created and the
\* user message and the reply are gone
C30_FirstSendLost ==
  /\ sends[1].pc = "Done" /\ Alone(1) /\ sends[1].created
  /\ options = DefaultOptions
  /\ sends[1].before = <<Welcome>>
  /\ hook.messages = <<Welcome>>

\* a send that kept its messages
C30_FirstSendKept ==
  /\ sends[1].pc = "Done" /\ Alone(1) /\ ~sends[1].created
  /\ Ids(hook.messages) = Kept(1)

====
